---- MODULE Spec2Model ----
(***************************************************************************)
(* A model of deeprank.learn.DataSet (src/deeprank/learn/DataSet.py): the  *)
(* complex index, the feature-name resolution, the per-complex loader, the *)
(* normalization statistics and the item access with its transformations.  *)
(*                                                                         *)
(* Numbers are exact: a value is a fraction in lowest terms, a zero        *)
(* denominator stands for inf and nan, and a square root that is not       *)
(* rational is kept as a surd.                                             *)
(*                                                                         *)
(* Text is modelled as a sequence of one-character strings, so that the    *)
(* substring, prefix and split tests of the code are computed, not         *)
(* assumed.  An HDF5 group is an ordered mapping: a sequence of            *)
(* <<key, value>> pairs in the order keys() yields them.                   *)
(***************************************************************************)
EXTENDS Integers, Sequences, FiniteSets, TLC

VARIABLES
    pc,               \* the stage of process_dataset / the operation that ran
    err,              \* the exception that left the operation, or "none"
    database,         \* self.database
    test_database,    \* self.test_database ([kind |-> "none"] is None)
    select_pdb,       \* self.select_pdb
    dict_filter,      \* self.dict_filter
    index_complexes,  \* self.index_complexes
    ntrain,           \* self.ntrain
    ntot,             \* self.ntot
    index_train,      \* self.index_train
    index_test,       \* self.index_test
    ignored,          \* files for which '-->Ignore File' was printed
    select_feature,   \* self.select_feature
    request,          \* the select_feature the caller passed (history)
    grid_shape,       \* self.grid_shape
    select_target,    \* self.select_target
    load_arg,         \* the (fname, mol) of the last load_one_molecule
    load_out,         \* what the last load_one_molecule returned
    normalize_features,  \* self.normalize_features
    normalize_targets,   \* self.normalize_targets
    clip_features,    \* self.clip_features
    pair_chain_feature,  \* self.pair_chain_feature
    transform,        \* self.transform
    proj2D,           \* self.proj2D
    norm_file,        \* the cache file <shard>_norm.pckl of each shard
    rewritten,        \* the shards rewritten since the disk was clean
    nscan,            \* how often NormalizeData scanned each shard (history)
    pair_indexes,     \* self.pair_indexes
    data_shape,       \* self.data_shape
    input_shape,      \* self.input_shape
    param_norm,       \* self.param_norm
    feature_mean,     \* self.feature_mean
    feature_std,      \* self.feature_std
    target_min,       \* self.target_min
    target_max,       \* self.target_max
    get_arg,          \* the index of the last __getitem__
    get_out,          \* what the last __getitem__ returned
    call_arg,         \* the argument of a transform function called alone
    call_out,         \* what the last such call returned
    target_ordering,  \* self.target_ordering
    open_files,       \* the shards with a handle opened and not closed
    work              \* the __getitem__ call each worker is in

vars == <<pc, err, database, test_database, select_pdb, dict_filter,
          index_complexes, ntrain, ntot, index_train, index_test, ignored,
          select_feature, request, grid_shape, select_target, load_arg,
          load_out, normalize_features, normalize_targets, clip_features,
          pair_chain_feature, transform, proj2D, norm_file, rewritten, nscan,
          pair_indexes, data_shape, input_shape, param_norm, feature_mean,
          feature_std, target_min, target_max, get_arg, get_out, call_arg,
          call_out, target_ordering, open_files, work>>

indexVars == <<index_complexes, ntrain, ntot, index_train, index_test, ignored>>
loadVars == <<load_arg, load_out>>
setupVars == <<database, test_database, select_pdb, dict_filter, indexVars,
               select_feature, request, grid_shape, select_target>>
toggleVars == <<normalize_features, normalize_targets, clip_features,
                pair_chain_feature, transform, proj2D>>
diskVars == <<norm_file, rewritten, nscan>>
statVars == <<param_norm, feature_mean, feature_std, target_min, target_max>>
itemVars == <<get_arg, get_out>>
callVars == <<call_arg, call_out>>
laterVars == <<toggleVars, diskVars, pair_indexes, data_shape, input_shape,
               statVars, itemVars>>
moreVars == <<target_ordering, open_files, work>>

-----------------------------------------------------------------------------
(* Bounds of the model *)

MaxTrain == 2
MaxTest == 1
MaxNames == 2

-----------------------------------------------------------------------------
(* Text and sequence helpers *)

Range(s) == {s[i] : i \in DOMAIN s}

NoDup(s) == \A i, j \in DOMAIN s : s[i] = s[j] => i = j

\* python: t in s (for strings)
IsSubstr(t, s) ==
    \E i \in 0..(Len(s) - Len(t)) : SubSeq(s, i + 1, i + Len(t)) = t

\* python: s.startswith(m)
StartsWith(s, m) == Len(m) <= Len(s) /\ SubSeq(s, 1, Len(m)) = m

\* python: s.split(c)[0]
SplitFirst(s, c) ==
    IF \E i \in DOMAIN s : s[i] = c
    THEN LET i == CHOOSE i \in DOMAIN s :
                      s[i] = c /\ \A j \in 1..(i - 1) : s[j] # c
         IN SubSeq(s, 1, i - 1)
    ELSE s

\* the orders in which python may iterate over a set
Perms(S) ==
    {p \in [1..Cardinality(S) -> S] : \A i, j \in DOMAIN p : p[i] = p[j] => i = j}

\* an ordered mapping: keys, membership and lookup
Keys(m) == [i \in DOMAIN m |-> m[i][1]]
HasKey(m, k) == \E i \in DOMAIN m : m[i][1] = k
Lookup(m, k) == m[CHOOSE i \in DOMAIN m : m[i][1] = k][2]

-----------------------------------------------------------------------------
(* Program text constants *)

tagA == <<"_", "c", "h", "a", "i", "n", "A">>
tagB == <<"_", "c", "h", "a", "i", "n", "B">>
chain_tags == <<tagA, tagB>>
indMark == <<"_", "i", "n", "d">>
star == "*"

-----------------------------------------------------------------------------
(* The archives on disk.  A shard is [readable, mols]; mols is the ordered  *)
(* mapping complex-id -> complex; a complex holds `targets` (a function)    *)
(* and `mapped` (group -> name -> stored field).  A stored field is sparse  *)
(* (index, value) or dense (shape, flat row-major value).                   *)

Sparse(idx, val) == [sparse |-> TRUE, index |-> idx, value |-> val]
Dense(shp, val) == [sparse |-> FALSE, shape |-> shp, value |-> val]

gD == <<"D">>
gF == <<"F">> \o indMark
gH == <<"H">> \o indMark
nP == <<"p">>
nPQ == <<"p", "q">>
nQ == <<"q">>
nX == <<"x">>
nXY == <<"x", "y">>
nMid == <<"r">> \o tagA \o <<"s">>
nU == <<"u">>

Cells == <<2, 1, 1>>

\* the processes that call __getitem__ (the workers of a DataLoader)
Workers == {"w1", "w2"}

\* target_ordering = None
NoOrdering == "None"

fPA == Sparse(<<0>>, <<5>>)
fPB == Dense(Cells, <<1, 2>>)
fPQA == Sparse(<<1>>, <<7>>)
fPQB == Dense(Cells, <<3, 4>>)
fX == Dense(Cells, <<8, 9>>)
fXY == Sparse(<<0, 1>>, <<6, 6>>)
fQA == Dense(Cells, <<4, 4>>)
fQB == Sparse(<<2>>, <<9>>)
fMid == Dense(Cells, <<7, 1>>)
fUA1 == Dense(Cells, <<0, 1>>)
fUA2 == Dense(Cells, <<1, 4>>)
fUB1 == Sparse(<<0, 1>>, <<1, 2>>)
fUB2 == Dense(Cells, <<2, 5>>)

MapStd ==
    << <<gD, << <<nX, fX>>, <<nXY, fXY>> >> >>,
       <<gF, << <<nP \o tagA, fPA>>, <<nP \o tagB, fPB>>,
                <<nPQ \o tagA, fPQA>>, <<nPQ \o tagB, fPQB>> >> >> >>

\* as MapStd, without pq_chainB
MapLess ==
    << <<gD, << <<nX, fX>>, <<nXY, fXY>> >> >>,
       <<gF, << <<nP \o tagA, fPA>>, <<nP \o tagB, fPB>>,
                <<nPQ \o tagA, fPQA>> >> >> >>

\* no group D; q_chainB holds a sparse index outside the grid
MapOther ==
    << <<gF, << <<nP \o tagA, fPA>>, <<nP \o tagB, fPB>>,
                <<nQ \o tagA, fQA>>, <<nQ \o tagB, fQB>>,
                <<nMid, fMid>> >> >> >>

\* the fields u_chainA and u_chainB differ from one complex to the other
MapSpread(ua, ub) ==
    << <<gD, << <<nX, fXY>> >> >>,
       <<gF, << <<nU \o tagA, ua>>, <<nU \o tagB, ub>> >> >> >>

Both(i, d) == [t \in {"IRMSD", "DOCKQ"} |-> IF t = "IRMSD" THEN i ELSE d]
OnlyDockq(d) == [t \in {"DOCKQ"} |-> d]

Mol(tg, mp) == [targets |-> tg, mapped |-> mp]

Archive(f) ==
    CASE f = "sA" -> [readable |-> TRUE,
                      mols |-> << <<"m1", Mol(Both(2, 1), MapStd)>>,
                                  <<"m2", Mol(Both(6, 0), MapStd)>>,
                                  <<"m3", Mol(Both(12, 1), MapStd)>> >>]
      [] f = "sB" -> [readable |-> TRUE,
                      mols |-> << <<"m2", Mol(Both(3, 1), MapLess)>>,
                                  <<"m4", Mol(OnlyDockq(1), MapStd)>>,
                                  <<"m5", Mol(Both(11, 0), MapStd)>> >>]
      [] f = "sC" -> [readable |-> TRUE,
                      mols |-> << <<"m6", Mol(Both(7, 1), MapOther)>> >>]
      [] f = "sD" -> [readable |-> TRUE,
                      mols |-> << <<"m7", Mol(Both(4, 1), MapSpread(fUA1, fUB1))>>,
                                  <<"m8", Mol(Both(8, 0), MapSpread(fUA2, fUB2))>> >>]
      [] f = "sEmpty" -> [readable |-> TRUE, mols |-> <<>>]
      [] OTHER -> [readable |-> FALSE, mols |-> <<>>]

Files == {"sA", "sB", "sC", "sD", "sEmpty", "sBad"}

\* mol_data['grid_points'] of a complex of a shard: the lengths of its
\* x, y and z arrays, or no such group
NoGrid == [present |-> FALSE]
Grid(nx, ny, nz) == [present |-> TRUE, x |-> nx, y |-> ny, z |-> nz]
GridPoints(f, k) ==
    CASE f = "sA" /\ k = "m3" -> Grid(3, 1, 1)
      [] f = "sA" -> Grid(2, 1, 1)
      [] f = "sC" -> Grid(3, 1, 1)
      [] f = "sD" -> Grid(2, 1, 1)
      [] OTHER -> NoGrid

\* grid_shape = None
NoShape == <<>>

\* h5py.File(fname, 'r') succeeds
CanOpen(f) == Archive(f).readable

\* list(fh5.keys())
MolNames(f) == Keys(Archive(f).mols)


-----------------------------------------------------------------------------
(* DataSet.filter: the comparison expressions of dict_filter.  An          *)
(* expression is a sequence of tokens; the code rewrites it textually and  *)
(* evaluates the result.                                                   *)

Op(o) == [t |-> "op", s |-> o]
Num(n) == [t |-> "num", n |-> n]
Kw(k) == [t |-> "kw", s |-> k]
Nm(x) == [t |-> "name", s |-> x]
StrCond(toks) == [str |-> TRUE, toks |-> toks]
\* a condition that is not a string, such as the list [0., 0.6]
ListCond == [str |-> FALSE]

ops == {">", "<", "=="}

\* new_cond_vals.replace(o, 'val' + o) for each o in ops
RECURSIVE ReplaceOps(_)
ReplaceOps(toks) ==
    IF toks = <<>> THEN <<>>
    ELSE LET h == Head(toks)
         IN (IF h.t = "op" /\ h.s \in ops THEN <<Nm("val"), h>> ELSE <<h>>)
            \o ReplaceOps(Tail(toks))

IsKw(tok, k) == tok.t = "kw" /\ tok.s = k

\* eval of one comparison: "True", "False" or "raise"
EvalCmp(toks, val) ==
    IF /\ Len(toks) = 3
       /\ toks[1].t = "name" /\ toks[1].s = "val"
       /\ toks[2].t = "op"
       /\ toks[3].t = "num"
    THEN LET r == CASE toks[2].s = "<" -> val < toks[3].n
                    [] toks[2].s = ">" -> val > toks[3].n
                    [] OTHER -> val = toks[3].n
         IN IF r THEN "True" ELSE "False"
    ELSE "raise"

\* python: x and y binds tighter than x or y; both short-circuit
RECURSIVE EvalAnd(_, _)
EvalAnd(toks, val) ==
    IF \E i \in DOMAIN toks : IsKw(toks[i], "and")
    THEN LET i == CHOOSE i \in DOMAIN toks :
                      IsKw(toks[i], "and")
                      /\ \A j \in 1..(i - 1) : ~IsKw(toks[j], "and")
             l == EvalCmp(SubSeq(toks, 1, i - 1), val)
         IN IF l = "True" THEN EvalAnd(SubSeq(toks, i + 1, Len(toks)), val)
            ELSE l
    ELSE EvalCmp(toks, val)

RECURSIVE EvalOr(_, _)
EvalOr(toks, val) ==
    IF \E i \in DOMAIN toks : IsKw(toks[i], "or")
    THEN LET i == CHOOSE i \in DOMAIN toks :
                      IsKw(toks[i], "or")
                      /\ \A j \in 1..(i - 1) : ~IsKw(toks[j], "or")
             l == EvalAnd(SubSeq(toks, 1, i - 1), val)
         IN IF l = "False" THEN EvalOr(SubSeq(toks, i + 1, Len(toks)), val)
            ELSE l
    ELSE EvalAnd(toks, val)

\* the loop over dict_filter.items() from item i on: "True", "False", or
\* the exception that leaves filter
RECURSIVE FilterFrom(_, _, _)
FilterFrom(items, i, molgrp) ==
    IF i > Len(items) THEN "True"
    ELSE LET cond_name == items[i][1]
             cond_vals == items[i][2]
         IN IF cond_name \notin DOMAIN molgrp.targets
            \* the except clause prints `mol`, a name filter never binds
            THEN "NameError"
            ELSE IF ~cond_vals.str THEN "ValueError"
            ELSE LET r == EvalOr(ReplaceOps(cond_vals.toks),
                                 molgrp.targets[cond_name])
                 IN CASE r = "raise" -> "SyntaxError"
                      [] r = "False" -> "False"
                      [] OTHER -> FilterFrom(items, i + 1, molgrp)

\* a variant that lets every complex pass
filter_nothing(flt, molgrp) == "True"

filter(flt, molgrp) ==
    IF flt.kind = "none" THEN "True" ELSE FilterFrom(flt.items, 1, molgrp)


-----------------------------------------------------------------------------
(* DataSet.check_hdf5_files *)

\* the file lands in remove_file: it cannot be opened, or holds no complex
Rejected(f) == ~CanOpen(f) \/ MolNames(f) = <<>>

check_hdf5_files(db) == SelectSeq(db, LAMBDA f : ~Rejected(f))

-----------------------------------------------------------------------------
(* DataSet.create_index_molecules *)

\* a variant that restricts with a list comprehension over select_pdb, so a
\* name listed twice is visited twice
SelectedNamesList(f, sel) ==
    IF sel = <<>> THEN {MolNames(f)}
    ELSE {SelectSeq(sel, LAMBDA k : k \in Range(MolNames(f)))}

\* mol_names after the select_pdb restriction, in every order the loop may
\* visit them: the key order of the file, or any order of the set
SelectedNames(f, sel) ==
    IF sel = <<>> THEN {MolNames(f)}
    ELSE LET S == Range(sel) \cap Range(MolNames(f))
         IN {[i \in 1..Cardinality(S) |-> p[i]] : p \in Perms(S)}

\* the train loop body over one file, from complex i on; an exception of
\* filter leaves the loop and the file is reported as ignored
RECURSIVE ScanFrom(_, _, _, _)
ScanFrom(f, names, i, flt) ==
    IF i > Len(names) THEN [entries |-> <<>>, ignored |-> {}]
    ELSE LET r == filter(flt, Lookup(Archive(f).mols, names[i]))
         IN CASE r = "True" ->
                   LET rest == ScanFrom(f, names, i + 1, flt)
                   IN [entries |-> << <<f, names[i]>> >> \o rest.entries,
                       ignored |-> rest.ignored]
              [] r = "False" -> ScanFrom(f, names, i + 1, flt)
              [] OTHER -> [entries |-> <<>>, ignored |-> {f}]

TrainFile(f, sel, flt) ==
    IF ~CanOpen(f) THEN {[entries |-> <<>>, ignored |-> {f}]}
    ELSE {ScanFrom(f, names, 1, flt) : names \in SelectedNames(f, sel)}

TestFile(f, sel) ==
    IF ~CanOpen(f) THEN {[entries |-> <<>>, ignored |-> {f}]}
    ELSE {[entries |-> [i \in DOMAIN names |-> <<f, names[i]>>],
           ignored |-> {}] : names \in SelectedNames(f, sel)}

RECURSIVE TrainPool(_, _, _)
TrainPool(db, sel, flt) ==
    IF db = <<>> THEN {[entries |-> <<>>, ignored |-> {}]}
    ELSE {[entries |-> h.entries \o t.entries,
           ignored |-> h.ignored \cup t.ignored] :
              h \in TrainFile(Head(db), sel, flt),
              t \in TrainPool(Tail(db), sel, flt)}

RECURSIVE TestPool(_, _)
TestPool(db, sel) ==
    IF db = <<>> THEN {[entries |-> <<>>, ignored |-> {}]}
    ELSE {[entries |-> h.entries \o t.entries,
           ignored |-> h.ignored \cup t.ignored] :
              h \in TestFile(Head(db), sel),
              t \in TestPool(Tail(db), sel)}

\* list(range(a, b))
PyRange(a, b) == [i \in 1..(b - a) |-> a + i - 1]

\* a variant that takes ntrain once both loops have run
NTrainLate(train, test) == Len(train \o test)

\* self.ntrain, taken between the two loops
NTrainOf(train, test) == Len(train)

\* self.index_complexes once both loops have run
IndexOf(train, test) == train \o test

create_index_molecules ==
    \E tr \in TrainPool(database, select_pdb, dict_filter) :
    \E te \in (IF test_database.kind = "none"
               THEN {[entries |-> <<>>, ignored |-> {}]}
               ELSE TestPool(test_database.files, select_pdb)) :
        /\ index_complexes' = IndexOf(tr.entries, te.entries)
        /\ ntrain' = NTrainOf(tr.entries, te.entries)
        /\ index_train' = PyRange(0, ntrain')
        /\ ntot' = Len(index_complexes')
        /\ index_test' = PyRange(ntrain', ntot')
        /\ ignored' = tr.ignored \cup te.ignored


-----------------------------------------------------------------------------
(* DataSet.get_feature_name.  select_feature is [kind |-> "all"] (the      *)
(* string 'all') or [kind |-> "dict", items |-> <<group, request>> pairs   *)
(* in dict order]; a request is AllReq (the string 'all') or a list of     *)
(* names.                                                                  *)

AllReq == [all |-> TRUE]
ListReq(names) == [all |-> FALSE, names |-> names]
SelAll == [kind |-> "all"]
SelDict(items) == [kind |-> "dict", items |-> items]

\* mol_name + '/mapped_features/' of the first complex of database[0]
mapped_data(db) == Archive(db[1]).mols[1][2].mapped

\* the branch select_feature == "all": every group, every name
ResolveAll(md) ==
    [i \in DOMAIN md |-> <<md[i][1], ListReq(Keys(md[i][2]))>>]

\* a variant that appends the chain tags in the other order
ExpandNameSwapped(name, feat_type, md) ==
    IF \A t \in DOMAIN chain_tags : ~IsSubstr(chain_tags[t], name)
    THEN IF \E i \in DOMAIN name : name[i] = star
         THEN IF ~HasKey(md, feat_type)
              THEN [err |-> "KeyError", names |-> <<>>]
              ELSE [err |-> "none",
                    names |-> SelectSeq(Keys(Lookup(md, feat_type)),
                                  LAMBDA n : StartsWith(n, SplitFirst(name, star)))]
         ELSE [err |-> "none", names |-> <<name \o tagB, name \o tagA>>]
    ELSE [err |-> "none", names |-> <<name>>]

\* the names one requested name of a per-chain group contributes
ExpandName(name, feat_type, md) ==
    IF \A t \in DOMAIN chain_tags : ~IsSubstr(chain_tags[t], name)
    THEN IF \E i \in DOMAIN name : name[i] = star
         THEN IF ~HasKey(md, feat_type)
              THEN [err |-> "KeyError", names |-> <<>>]
              ELSE LET match == SplitFirst(name, star)
                       possible_names == Keys(Lookup(md, feat_type))
                   IN [err |-> "none",
                       names |-> SelectSeq(possible_names,
                                           LAMBDA n : StartsWith(n, match))]
         ELSE [err |-> "none",
               names |-> [t \in DOMAIN chain_tags |-> name \o chain_tags[t]]]
    ELSE [err |-> "none", names |-> <<name>>]

\* the loop over the names of one per-chain group, from name i on
RECURSIVE ExpandFrom(_, _, _, _)
ExpandFrom(names, i, feat_type, md) ==
    IF i > Len(names) THEN [err |-> "none", names |-> <<>>]
    ELSE LET h == ExpandName(names[i], feat_type, md)
         IN IF h.err # "none" THEN h
            ELSE LET t == ExpandFrom(names, i + 1, feat_type, md)
                 \* on an exception the names appended so far stay
                 IN [err |-> t.err, names |-> h.names \o t.names]

\* a variant whose 'all' branch misses the last stored name
ResolveGroupShort(feat_type, req, md) ==
    IF req.all
    THEN IF HasKey(md, feat_type)
         THEN LET ks == Keys(Lookup(md, feat_type))
              IN [err |-> "none", req |-> ListReq(SubSeq(ks, 1, Len(ks) - 1))]
         ELSE [err |-> "KeyError", req |-> req]
    ELSE IF IsSubstr(indMark, feat_type)
    THEN LET e == ExpandFrom(req.names, 1, feat_type, md)
         IN [err |-> e.err, req |-> ListReq(e.names)]
    ELSE [err |-> "ValueError", req |-> req]

\* one iteration of the loop over select_feature.items()
ResolveGroup(feat_type, req, md) ==
    IF req.all
    THEN IF HasKey(md, feat_type)
         THEN [err |-> "none", req |-> ListReq(Keys(Lookup(md, feat_type)))]
         ELSE [err |-> "KeyError", req |-> req]
    ELSE IF IsSubstr(indMark, feat_type)
    THEN LET e == ExpandFrom(req.names, 1, feat_type, md)
         IN [err |-> e.err, req |-> ListReq(e.names)]
    ELSE [err |-> "ValueError", req |-> req]

\* the loop over select_feature.items() from item i on; an exception leaves
\* the items already rewritten in place
RECURSIVE ResolveFrom(_, _, _)
ResolveFrom(items, i, md) ==
    IF i > Len(items) THEN [err |-> "none", items |-> items]
    ELSE LET g == ResolveGroup(items[i][1], items[i][2], md)
             now == [items EXCEPT ![i] = <<items[i][1], g.req>>]
         IN IF g.err # "none" THEN [err |-> g.err, items |-> now]
            ELSE ResolveFrom(now, i + 1, md)

get_feature_name(sel, db) ==
    IF db = <<>> THEN [err |-> "IndexError", sel |-> sel]
    ELSE IF sel.kind = "all"
    THEN [err |-> "none", sel |-> SelDict(ResolveAll(mapped_data(db)))]
    ELSE LET r == ResolveFrom(sel.items, 1, mapped_data(db))
         IN [err |-> r.err, sel |-> SelDict(r.items)]


-----------------------------------------------------------------------------
(* deeprank.tools.sparse.FLANgrid.to_dense: values scattered at the flat   *)
(* row-major indices of a zero array of the given shape                    *)

Size(shape) == shape[1] * shape[2] * shape[3]

to_dense(index, value, shape) ==
    IF \E i \in DOMAIN index : index[i] < 0 \/ index[i] >= Size(shape)
    THEN [err |-> "IndexError"]
    ELSE [err |-> "none",
          mat |-> [shape |-> shape,
                   value |-> [c \in 1..Size(shape) |->
                                 IF \E i \in DOMAIN index : index[i] = c - 1
                                 THEN value[CHOOSE i \in DOMAIN index :
                                                index[i] = c - 1]
                                 ELSE 0]]]

-----------------------------------------------------------------------------
(* DataSet.load_one_molecule *)

\* the (feat_type, name) pairs in the order the two nested loops visit them
RECURSIVE Visits(_)
Visits(items) ==
    IF items = <<>> THEN <<>>
    ELSE LET g == Head(items)
         IN [i \in DOMAIN g[2].names |-> <<g[1], g[2].names[i]>>]
            \o Visits(Tail(items))

Unbound == [bound |-> FALSE]
Bound(d) == [bound |-> TRUE, d |-> d]

\* `data` after the try/except around feat_dict[name]: the stored field,
\* or on KeyError whatever `data` held before
FetchData(feat_dict, name, data) ==
    IF HasKey(feat_dict, name) THEN Bound(Lookup(feat_dict, name)) ELSE data

\* the matrix appended for one stored field
Decode(d, shape) ==
    IF d.sparse THEN to_dense(d.index, d.value, shape)
    ELSE [err |-> "none", mat |-> [shape |-> d.shape, value |-> d.value]]

\* the nested loops from visit i on, `data` being the local of that name
RECURSIVE LoadFrom(_, _, _, _, _)
LoadFrom(visits, i, mapped, data, shape) ==
    IF i > Len(visits) THEN [err |-> "none", feature |-> <<>>]
    ELSE IF ~HasKey(mapped, visits[i][1])
    \* mol_data.get(...) gave None, and None[name] raises
    THEN [err |-> "TypeError", feature |-> <<>>]
    ELSE LET now == FetchData(Lookup(mapped, visits[i][1]), visits[i][2], data)
         IN IF ~now.bound THEN [err |-> "UnboundLocalError", feature |-> <<>>]
            ELSE LET m == Decode(now.d, shape)
                 IN IF m.err # "none" THEN [err |-> m.err, feature |-> <<>>]
                    ELSE LET rest == LoadFrom(visits, i + 1, mapped, now, shape)
                         IN [err |-> rest.err,
                             feature |-> <<m.mat>> \o rest.feature]

\* np.array(feature): one array only when every matrix has the same shape
Stack(feature) ==
    IF \A i, j \in DOMAIN feature : feature[i].shape = feature[j].shape
    THEN [err |-> "none", feature |-> feature]
    ELSE [err |-> "ValueError", feature |-> <<>>]

Raised(e) == [err |-> e, feature |-> <<>>, target |-> 0]

\* mol is a complex-id, or "None" for the first complex of the file
load_one_molecule(fname, mol, sel, tgt, shape) ==
    IF ~CanOpen(fname) THEN Raised("OSError")
    ELSE IF mol = "None" /\ MolNames(fname) = <<>> THEN Raised("IndexError")
    ELSE LET k == IF mol = "None" THEN MolNames(fname)[1] ELSE mol
         IN IF ~HasKey(Archive(fname).mols, k) THEN Raised("AttributeError")
            ELSE LET mol_data == Lookup(Archive(fname).mols, k)
                     l == LoadFrom(Visits(sel.items), 1, mol_data.mapped,
                                   Unbound, shape)
                 IN IF l.err # "none" THEN Raised(l.err)
                    ELSE IF tgt \notin DOMAIN mol_data.targets
                    THEN Raised("AttributeError")
                    ELSE LET a == Stack(l.feature)
                         IN IF a.err # "none" THEN Raised(a.err)
                            ELSE [err |-> "none", feature |-> a.feature,
                                  target |-> mol_data.targets[tgt]]


-----------------------------------------------------------------------------
(* Numbers.  The arrays of the code hold floats; the model computes with   *)
(* exact fractions [n, d] in lowest terms, d > 0.  As in numpy, a division *)
(* by zero does not raise: d = 0 stands for inf (n = 1), -inf (n = -1) and *)
(* nan (n = 0).  rt marks the square root of the fraction, kept as such    *)
(* when the fraction is not the square of a fraction.                      *)

Abs(x) == IF x < 0 THEN -x ELSE x
Sign(x) == IF x < 0 THEN -1 ELSE IF x > 0 THEN 1 ELSE 0

RECURSIVE GCD(_, _)
GCD(a, b) == IF b = 0 THEN a ELSE GCD(b, a % b)

Rat(n, d) ==
    IF d = 0 THEN [n |-> Sign(n), d |-> 0, rt |-> FALSE]
    ELSE LET g == GCD(Abs(n), Abs(d))
         IN [n |-> (Sign(d) * n) \div g, d |-> Abs(d) \div g, rt |-> FALSE]

Num0 == Rat(0, 1)
Num1 == Rat(1, 1)
NaN == Rat(0, 0)
IsNaN(x) == x.d = 0 /\ x.n = 0
IsFinite(x) == x.d # 0

\* x + y
Plus(x, y) ==
    IF IsFinite(x) /\ IsFinite(y) THEN Rat(x.n * y.d + y.n * x.d, x.d * y.d)
    ELSE IF IsNaN(x) \/ IsNaN(y) THEN NaN
    ELSE IF IsFinite(x) THEN y
    ELSE IF IsFinite(y) \/ x.n = y.n THEN x
    ELSE NaN

\* -x
Neg(x) == [x EXCEPT !.n = -x.n]

\* x - y
Minus(x, y) == Plus(x, Neg(y))

\* x * y
Times(x, y) == Rat(x.n * y.n, x.d * y.d)

\* x / y
Over(x, y) ==
    IF IsFinite(x) /\ IsFinite(y) THEN Rat(x.n * y.d, x.d * y.n)
    ELSE IF IsFinite(y) THEN Rat(x.n * Sign(y.n), 0)
    ELSE IF IsFinite(x) THEN Num0
    ELSE NaN

\* x < y; a comparison with nan is False
Less(x, y) ==
    IF IsNaN(x) \/ IsNaN(y) THEN FALSE
    ELSE IF IsFinite(x) /\ IsFinite(y) THEN x.n * y.d < y.n * x.d
    ELSE IF IsFinite(x) THEN y.n > 0
    ELSE IF IsFinite(y) THEN x.n < 0
    ELSE x.n < y.n

\* the integer r >= 0 with r * r = k, or -1
IntRoot(k) ==
    IF \E r \in 0..k : r * r = k THEN CHOOSE r \in 0..k : r * r = k ELSE -1

\* np.sqrt(x) for x >= 0
Sqrt(x) ==
    IF x.n < 0 THEN NaN
    ELSE IF ~IsFinite(x) THEN x
    ELSE IF IntRoot(x.n) >= 0 /\ IntRoot(x.d) >= 0
    THEN Rat(IntRoot(x.n), IntRoot(x.d))
    ELSE [x EXCEPT !.rt = TRUE]

\* x == 0
IsZero(x) == x.n = 0 /\ x.d # 0

-----------------------------------------------------------------------------
(* deeprank.generate.NormalizeData: the scan of one shard that writes its  *)
(* sibling cache file.  revision counts the rewrites of the shard by the   *)
(* upstream extraction stage; a rewrite scales what the shard stores.      *)

\* a sequence without its repeated elements, first occurrences kept
RECURSIVE Dedup(_)
Dedup(s) ==
    IF s = <<>> THEN <<>>
    ELSE LET d == Dedup(SubSeq(s, 1, Len(s) - 1))
             x == s[Len(s)]
         IN IF x \in Range(d) THEN d ELSE Append(d, x)

RECURSIVE Concat(_)
Concat(ss) == IF ss = <<>> THEN <<>> ELSE Head(ss) \o Concat(Tail(ss))

RECURSIVE Sum(_)
Sum(s) == IF s = <<>> THEN 0 ELSE Head(s) + Sum(Tail(s))

\* the groups, and the names of a group, that the complexes of a shard store
GroupsOf(f) ==
    Dedup(Concat([i \in DOMAIN Archive(f).mols |->
                     Keys(Archive(f).mols[i][2].mapped)]))

NamesOf(f, g) ==
    Dedup(Concat([i \in DOMAIN Archive(f).mols |->
                     IF HasKey(Archive(f).mols[i][2].mapped, g)
                     THEN Keys(Lookup(Archive(f).mols[i][2].mapped, g))
                     ELSE <<>>]))

\* the decoded fields g/n of the complexes of a shard that store one
FieldsOf(f, g, n, shape) ==
    LET has == SelectSeq(Archive(f).mols,
                   LAMBDA m : /\ HasKey(m[2].mapped, g)
                              /\ HasKey(Lookup(m[2].mapped, g), n))
    IN [i \in DOMAIN has |->
           Decode(Lookup(Lookup(has[i][2].mapped, g), n), shape)]

\* mean and variance of the values vals
Moments(vals) ==
    [mean |-> Rat(Sum(vals), Len(vals)),
     var |-> Minus(Rat(Sum([i \in DOMAIN vals |-> vals[i] * vals[i]]), Len(vals)),
                   Rat(Sum(vals) * Sum(vals), Len(vals) * Len(vals)))]

\* mean and variance of the values of the decoded fields, or the exception
\* of a field that cannot be decoded
StatOf(fields, rev) ==
    IF \E k \in DOMAIN fields : fields[k].err # "none"
    THEN [err |-> "IndexError"]
    ELSE [err |-> "none",
          stat |-> Moments(Concat([k \in DOMAIN fields |->
                              [c \in DOMAIN fields[k].mat.value |->
                                  fields[k].mat.value[c] * (rev + 1)]]))]

\* min and max of the values vals
Extremes(vals) ==
    [min |-> Rat(CHOOSE v \in vals : \A w \in vals : v <= w, 1),
     max |-> Rat(CHOOSE v \in vals : \A w \in vals : v >= w, 1)]

\* the values of target t in the complexes mols that store it
ValuesOf(mols, t, rev) ==
    {mols[i][2].targets[t] * (rev + 1) :
        i \in {j \in DOMAIN mols : t \in DOMAIN mols[j][2].targets}}

TargetsOf(mols, rev) ==
    [t \in UNION {DOMAIN mols[i][2].targets : i \in DOMAIN mols} |->
        Extremes(ValuesOf(mols, t, rev))]

\* the statistics of the names of one group
NamesStat(f, g, names, shape, rev) ==
    [ni \in DOMAIN names |->
        <<names[ni], StatOf(FieldsOf(f, g, names[ni], shape), rev)>>]

\* the statistics of the groups of a shard
GroupsStat(f, groups, shape, rev) ==
    [gi \in DOMAIN groups |->
        <<groups[gi],
          NamesStat(f, groups[gi], NamesOf(f, groups[gi]), shape, rev)>>]

\* the cache file content made of the statistics, unless one of them raised
Persist(features, targets) ==
    IF \E gi \in DOMAIN features : \E ni \in DOMAIN features[gi][2] :
          features[gi][2][ni][2].err # "none"
    THEN [err |-> "IndexError"]
    ELSE [err |-> "none",
          data |-> [features |->
                       [gi \in DOMAIN features |->
                           <<features[gi][1],
                             [ni \in DOMAIN features[gi][2] |->
                                 <<features[gi][2][ni][1],
                                   features[gi][2][ni][2].stat>>]>>],
                    targets |-> targets]]

\* NormalizeData(f5, shape).get(): the content of the cache file it writes,
\* or the exception that leaves it before anything is written
NormalizeData(f, shape, rev) ==
    IF ~CanOpen(f) THEN [err |-> "OSError"]
    ELSE Persist(GroupsStat(f, GroupsOf(f), shape, rev),
                 TargetsOf(Archive(f).mols, rev))

\* the sibling file <shard>_norm.pckl: absent, or holding what a scan wrote
NoNorm == [exists |-> FALSE]
NormFile(data) == [exists |-> TRUE, data |-> data]

-----------------------------------------------------------------------------
(* deeprank.generate.NormParam and MinMaxParam: the accumulators of the    *)
(* pooled statistics                                                       *)

NormParam == [mean |-> Num0, var |-> Num0, std |-> Num0]

\* NormParam.add(mean, var)
NormParam_add(p, mean, var) ==
    [p EXCEPT !.mean = Plus(@, mean), !.var = Plus(@, var)]

\* NormParam.process(n)
NormParam_process(p, n) ==
    LET var == Over(p.var, Rat(n, 1))
    IN [mean |-> Over(p.mean, Rat(n, 1)), var |-> var, std |-> Sqrt(var)]

MinMaxParam == [none |-> TRUE, min |-> Num0, max |-> Num0]

\* MinMaxParam.update(val)
MinMaxParam_update(p, val) ==
    IF p.none THEN [none |-> FALSE, min |-> val, max |-> val]
    ELSE [none |-> FALSE,
          min |-> IF Less(val, p.min) THEN val ELSE p.min,
          max |-> IF Less(p.max, val) THEN val ELSE p.max]

-----------------------------------------------------------------------------
(* DataSet.get_norm and DataSet._read_norm *)

\* d[key] = val for a key the ordered mapping d holds
Update(d, key, val) ==
    [i \in DOMAIN d |-> IF d[i][1] = key THEN <<key, val>> ELSE d[i]]

\* self.param_norm as get_norm declares it: one NormParam per selected name
\* (a dict holds a name once), one MinMaxParam for the selected target
DeclareParam(sel) ==
    [features |->
        [i \in DOMAIN sel.items |->
            LET names == Dedup(sel.items[i][2].names)
            IN <<sel.items[i][1],
                 [k \in DOMAIN names |-> <<names[k], NormParam>>]>>],
     targets |-> MinMaxParam]

\* data['features'][g][n], if the cache file holds it
Cached(data, g, n) ==
    IF HasKey(data.features, g) /\ HasKey(Lookup(data.features, g), n)
    THEN [err |-> "none", c |-> Lookup(Lookup(data.features, g), n)]
    ELSE [err |-> "KeyError"]

\* self.param_norm['features'][g][n].add(mean, var)
AddTo(features, g, n, c) ==
    Update(features, g,
           Update(Lookup(features, g), n,
                  NormParam_add(Lookup(Lookup(features, g), n), c.mean, c.var)))

\* the loops over the selected names for one cache file, from visit i on
RECURSIVE AddFrom(_, _, _, _)
AddFrom(visits, i, data, features) ==
    IF i > Len(visits) THEN [err |-> "none", features |-> features]
    ELSE IF Cached(data, visits[i][1], visits[i][2]).err # "none"
    THEN [err |-> "KeyError", features |-> features]
    ELSE AddFrom(visits, i + 1, data,
                 AddTo(features, visits[i][1], visits[i][2],
                       Cached(data, visits[i][1], visits[i][2]).c))

\* a variant that scans the shard whether its cache file exists or not
MustScanAlways(disk, f) == TRUE

\* not os.path.isfile(fdata)
MustScan(disk, f) == ~disk[f].exists

\* The loop over self.database.  Its state st is [err, pn, disk, nscan]: pn
\* is self.param_norm, disk maps a shard to its cache file, nscan counts the
\* scans of a shard.

\* the exception e leaves the loop
Leave(st, e) == [st EXCEPT !.err = e]

\* norm.get() for the file f5
Scanned(st, f5, norm) ==
    IF norm.err # "none" THEN Leave(st, norm.err)
    ELSE [st EXCEPT !.disk[f5] = NormFile(norm.data), !.nscan[f5] = @ + 1]

\* the cache file of f5 is made if it is not there
Ensure(st, f5, shape, rev) ==
    IF MustScan(st.disk, f5)
    THEN Scanned(st, f5, NormalizeData(f5, shape, rev[f5]))
    ELSE st

\* the features of one cache file have been added, a being what AddFrom gave
Added(st, a) ==
    IF a.err # "none" THEN [st EXCEPT !.err = a.err, !.pn.features = a.features]
    ELSE [st EXCEPT !.pn.features = a.features]

\* the target of one cache file
AddTarget(st, data, tgt) ==
    IF st.err # "none" THEN st
    ELSE IF tgt \notin DOMAIN data.targets THEN Leave(st, "KeyError")
    ELSE [st EXCEPT !.pn.targets =
              MinMaxParam_update(MinMaxParam_update(@, data.targets[tgt].min),
                                 data.targets[tgt].max)]

\* data = pickle.load(open(fdata, 'rb')) and what the loop body does with it
Accumulate(st, f5, sel, tgt) ==
    IF st.err # "none" THEN st
    ELSE AddTarget(Added(st, AddFrom(Visits(sel.items), 1, st.disk[f5].data,
                                     st.pn.features)),
                   st.disk[f5].data, tgt)

\* the loop from file i on
RECURSIVE ReadFrom(_, _, _, _, _, _, _)
ReadFrom(db, i, sel, tgt, st, rev, shape) ==
    IF i > Len(db) \/ st.err # "none" THEN st
    ELSE ReadFrom(db, i + 1, sel, tgt,
                  Accumulate(Ensure(st, db[i], shape, rev), db[i], sel, tgt),
                  rev, shape)

\* nfile = len(self.database)
NFile(db) == Len(db)

\* a variant that leaves a null std as it is
NullStdKept(p) == p

\* if std == 0: std = 1
NullStd(p) == IF IsZero(p.std) THEN [p EXCEPT !.std = Num1] ELSE p

\* the loop that processes every NormParam of self.param_norm
Process(features, nfile) ==
    [i \in DOMAIN features |->
        <<features[i][1],
          [k \in DOMAIN features[i][2] |->
              <<features[i][2][k][1],
                NullStd(NormParam_process(features[i][2][k][2], nfile))>>]>>]

\* the loop has ended: every NormParam is processed
Processed(st, nfile) ==
    IF st.err # "none" THEN st
    ELSE [st EXCEPT !.pn.features = Process(@, nfile)]

_read_norm(db, sel, tgt, pn, disk, scans, rev, shape) ==
    Processed(ReadFrom(db, 1, sel, tgt,
                       [err |-> "none", pn |-> pn, disk |-> disk, nscan |-> scans],
                       rev, shape),
              NFile(db))

Unset == [set |-> FALSE]
Set(v) == [set |-> TRUE, v |-> v]

\* the NormParam of a selected name
ParamOf(features, visit) == Lookup(Lookup(features, visit[1]), visit[2])

\* the lists and values get_norm takes out of self.param_norm
Attributes(st, visits) ==
    IF st.err # "none"
    THEN [err |-> st.err, param_norm |-> Set(st.pn),
          feature_mean |-> Unset, feature_std |-> Unset,
          target_min |-> Unset, target_max |-> Unset,
          disk |-> st.disk, nscan |-> st.nscan]
    ELSE [err |-> "none", param_norm |-> Set(st.pn),
          feature_mean |->
              Set([i \in DOMAIN visits |-> ParamOf(st.pn.features, visits[i]).mean]),
          feature_std |->
              Set([i \in DOMAIN visits |-> ParamOf(st.pn.features, visits[i]).std]),
          target_min |-> Set(st.pn.targets.min),
          target_max |-> Set(st.pn.targets.max),
          disk |-> st.disk, nscan |-> st.nscan]

\* get_norm: what it leaves in the attributes of the DataSet and on disk
get_norm(db, sel, tgt, disk, scans, rev, shape) ==
    Attributes(_read_norm(db, sel, tgt, DeclareParam(sel), disk, scans, rev, shape),
               Visits(sel.items))

-----------------------------------------------------------------------------
(* The arrays of the transform steps.  An array is [shape, value], value   *)
(* being its elements in row-major order.                                  *)

Array(shape, value) == [shape |-> shape, value |-> value]

RECURSIVE Prod(_)
Prod(s) == IF s = <<>> THEN 1 ELSE Head(s) * Prod(Tail(s))

\* np.array(feature).astype(outtype) of the channels a load returns
AsArray(feature) ==
    IF feature = <<>> THEN Array(<<0>>, <<>>)
    ELSE Array(<<Len(feature)>> \o feature[1].shape,
               Concat([i \in DOMAIN feature |->
                          [k \in DOMAIN feature[i].value |->
                              Rat(feature[i].value[k], 1)]]))

\* the number of elements of one a[ic]
Stride(a) == Prod(Tail(a.shape))

\* a[ic] (ic counted from 0), as the sequence of its elements
Chan(a, ic) == SubSeq(a.value, ic * Stride(a) + 1, (ic + 1) * Stride(a))

\* the ic of the element at position k of a.value
ChanOf(a, k) == (k - 1) \div Stride(a)

-----------------------------------------------------------------------------
(* DataSet._clip_feature, _normalize_feature, _normalize_target and        *)
(* backtransform_target                                                    *)

\* clip_factor = 1.5, the default of the constructor
clip_factor == Rat(3, 2)

\* a variant that clips at the upper bound only
ClipUpper(x, minv, maxv) == IF Less(maxv, x) THEN maxv ELSE x

\* np.clip(x, minv, maxv) = minimum(maximum(x, minv), maxv)
Clip(x, minv, maxv) ==
    LET lo == IF Less(x, minv) THEN minv ELSE x
    IN IF Less(maxv, lo) THEN maxv ELSE lo

\* the loop over range(self.data_shape[0]) reads feature_mean[ic],
\* feature_std[ic] and feature[ic]
LoopError(a, shape, mean, std) ==
    IF ~mean.set \/ ~std.set THEN "AttributeError"
    ELSE IF ~shape.set THEN "TypeError"
    ELSE IF shape.v[1] > Len(mean.v) \/ shape.v[1] > Len(std.v)
            \/ shape.v[1] > a.shape[1]
    THEN "IndexError"
    ELSE "none"

_clip_feature(a, shape, mean, std, w) ==
    IF LoopError(a, shape, mean, std) # "none"
    THEN [err |-> LoopError(a, shape, mean, std), feature |-> a]
    ELSE [err |-> "none",
          feature |->
              Array(a.shape,
                    [k \in DOMAIN a.value |->
                        LET ic == ChanOf(a, k)
                        IN IF ic >= shape.v[1] THEN a.value[k]
                           ELSE Clip(a.value[k],
                                     Minus(mean.v[ic + 1], Times(w, std.v[ic + 1])),
                                     Plus(mean.v[ic + 1], Times(w, std.v[ic + 1])))])]

_normalize_feature(a, shape, mean, std) ==
    IF LoopError(a, shape, mean, std) # "none"
    THEN [err |-> LoopError(a, shape, mean, std), feature |-> a]
    ELSE [err |-> "none",
          feature |->
              Array(a.shape,
                    [k \in DOMAIN a.value |->
                        LET ic == ChanOf(a, k)
                        IN IF ic >= shape.v[1] THEN a.value[k]
                           ELSE Over(Minus(a.value[k], mean.v[ic + 1]),
                                     std.v[ic + 1])])]

_normalize_target(target, tmin, tmax) ==
    IF ~tmin.set \/ ~tmax.set THEN [err |-> "AttributeError", target |-> target]
    ELSE [err |-> "none", target |-> Over(Minus(target, tmin.v), tmax.v)]

backtransform_target(data, tmin, tmax) ==
    IF ~tmin.set \/ ~tmax.set THEN [err |-> "AttributeError", data |-> data]
    ELSE [err |-> "none", data |-> Plus(Times(data, tmax.v), tmin.v)]

-----------------------------------------------------------------------------
(* DataSet.get_pairing_feature, make_feature_pair and convert2d *)

\* the pair_chain_feature of the constructor: None, or the callable np.add
NoPair == "None"
PairAdd == "np.add"

\* list(range(start, stop, 2))
PyRange2(start, stop) ==
    [i \in 1..((stop - start + 1) \div 2) |-> start + 2 * (i - 1)]

RECURSIVE PairsFrom(_, _, _)
PairsFrom(items, i, start) ==
    IF i > Len(items) THEN <<>>
    ELSE LET nfeat == Len(items[i][2].names)
         IN (IF IsSubstr(indMark, items[i][1])
             THEN [k \in DOMAIN PyRange2(start, start + nfeat) |->
                      <<PyRange2(start, start + nfeat)[k],
                        PyRange2(start, start + nfeat)[k] + 1>>]
             ELSE [k \in 1..nfeat |-> <<start + k - 1>>])
            \o PairsFrom(items, i + 1, start + nfeat)

\* self.pair_indexes after get_pairing_feature
get_pairing_feature(sel, op, old) ==
    IF op # NoPair THEN Set(PairsFrom(sel.items, 1, 0)) ELSE old

\* op(x, y) for the arrays x and y of one shape
Apply(op, x, y) == [k \in DOMAIN x |-> Plus(x[k], y[k])]

make_feature_pair(a, indexes, op) ==
    IF ~indexes.set THEN [err |-> "AttributeError", feature |-> a]
    ELSE LET ind == indexes.v
         IN IF \E i \in DOMAIN ind : \E j \in DOMAIN ind[i] :
                   ind[i][j] >= a.shape[1]
            THEN [err |-> "IndexError", feature |-> a]
            \* np.array(new_feat) of feature[[i], ...] next to op(...)
            ELSE IF \E i, j \in DOMAIN ind : Len(ind[i]) # Len(ind[j])
            THEN [err |-> "ValueError", feature |-> a]
            ELSE [err |-> "none",
                  feature |->
                      Array(<<Len(ind)>>
                            \o (IF ind # <<>> /\ Len(ind[1]) = 1
                                THEN <<1>> ELSE <<>>)
                            \o (IF ind = <<>> THEN <<>> ELSE Tail(a.shape)),
                            Concat([i \in DOMAIN ind |->
                                       IF Len(ind[i]) = 1
                                       THEN Chan(a, ind[i][1])
                                       ELSE Apply(op, Chan(a, ind[i][1]),
                                                  Chan(a, ind[i][2]))]))]

\* a.squeeze()
Squeeze(shape) == SelectSeq(shape, LAMBDA n : n # 1)

convert2d(a, proj2d) ==
    IF Len(a.shape) # 4 THEN [err |-> "ValueError", feature |-> a]
    ELSE LET nx == a.shape[2]
             ny == a.shape[3]
             nz == a.shape[4]
             to == CASE proj2d = 0 -> <<1, ny, nz>>
                     [] proj2d = 1 -> <<nx, 1, nz>>
                     [] proj2d = 2 -> <<nx, ny, 1>>
                     [] OTHER -> <<>>
         IN IF to = <<>> THEN [err |-> "none", feature |-> a]
            ELSE IF Prod(to) = 0 \/ Prod(a.shape) % Prod(to) # 0
            THEN [err |-> "ValueError", feature |-> a]
            ELSE [err |-> "none",
                  feature |-> Array(Squeeze(<<Prod(a.shape) \div Prod(to)>> \o to),
                                    a.value)]

-----------------------------------------------------------------------------
(* DataSet.get_grid_shape and DataSet._get_target_ordering *)

\* a variant that infers the shape whether or not the caller gave one
InferShapeAlways(g, shape) ==
    IF g.present
    THEN [err |-> "none", grid_shape |-> <<g.x, g.y, g.z>>]
    ELSE [err |-> "ValueError", grid_shape |-> shape]

\* self.grid_shape after the `if self.grid_shape is None` block, g being
\* mol_data['grid_points'], and the exception that left the block
InferShape(g, shape) ==
    IF shape # NoShape THEN [err |-> "none", grid_shape |-> shape]
    ELSE IF g.present
    THEN [err |-> "none", grid_shape |-> <<g.x, g.y, g.z>>]
    ELSE [err |-> "ValueError", grid_shape |-> shape]

\* the handle get_grid_shape leaves open: fh5.close() is its last statement
LeftOpen(fname, r) ==
    [err |-> r.err, grid_shape |-> r.grid_shape,
     open |-> IF r.err = "none" THEN {} ELSE {fname}]

\* get_grid_shape: self.grid_shape after it, the exception that left it and
\* the handle it leaves open
get_grid_shape(db, shape) ==
    IF db = <<>>
    THEN [err |-> "IndexError", grid_shape |-> shape, open |-> {}]
    ELSE IF ~CanOpen(db[1])
    THEN [err |-> "OSError", grid_shape |-> shape, open |-> {}]
    ELSE IF MolNames(db[1]) = <<>>
    THEN [err |-> "IndexError", grid_shape |-> shape, open |-> {db[1]}]
    ELSE LeftOpen(db[1],
                  InferShape(GridPoints(db[1], MolNames(db[1])[1]), shape))

lower_list == {"IRMSD", "LRMSD", "HADDOCK"}
higher_list == {"DOCKQ", "Fnat"}
NA_list == {"binary_class", "BIN_CLASS", "class"}

\* self.target_ordering after _get_target_ordering
_get_target_ordering(tgt) ==
    IF tgt \in lower_list THEN "lower"
    ELSE IF tgt \in higher_list THEN "higher"
    ELSE IF tgt \in NA_list THEN NoOrdering
    ELSE "lower"

-----------------------------------------------------------------------------
(* The handles an operation leaves open.  Each operation opens a shard     *)
(* with h5py.File and closes it with a close() at its end; an exception    *)
(* that leaves the operation, or its try block, skips that close().        *)

\* create_index_molecules: the train loop closes fh5 inside the try block,
\* so a shard that was opened and then ignored stays open (the test loop
\* can only fail in h5py.File itself)
IndexLeftOpen(db, ign) == {f \in Range(db) : f \in ign /\ CanOpen(f)}

\* the first item of the selection whose resolution raises, 0 if none does
RECURSIVE FailedItem(_, _, _)
FailedItem(items, i, md) ==
    IF i > Len(items) THEN 0
    ELSE IF ResolveGroup(items[i][1], items[i][2], md).err # "none" THEN i
    ELSE FailedItem(items, i + 1, md)

\* get_feature_name: f5 is closed by the last statement only (and
\* print_possible_features, called before each raise, opens the same shard
\* once more and never closes it)
FeatureNameLeftOpen(sel, db) ==
    IF db = <<>> \/ sel.kind = "all" THEN {}
    ELSE IF FailedItem(sel.items, 1, mapped_data(db)) = 0 THEN {}
    ELSE {db[1]}

\* load_one_molecule: fh5 is closed right before the return
LoadLeftOpen(fname, out) ==
    IF out.err \in {"none", "OSError"} THEN {} ELSE {fname}

-----------------------------------------------------------------------------
(* The attributes a DataSet holds before the later stages of its setup     *)
(* run, with the defaults of the constructor, and a disk without cache     *)
(* files                                                                   *)

\* target_ordering as the constructor leaves it by default, no handle open,
\* no worker in a call
NoWork == [w \in Workers |-> [stage |-> "idle"]]
NothingMore ==
    /\ target_ordering = NoOrdering
    /\ open_files = {}
    /\ work = NoWork

DefaultToggles ==
    /\ normalize_features = TRUE
    /\ normalize_targets = TRUE
    /\ clip_features = TRUE
    /\ pair_chain_feature = NoPair
    /\ transform = FALSE
    /\ proj2D = 0

NoAttributes ==
    /\ pair_indexes = Unset
    /\ data_shape = Unset
    /\ input_shape = Unset
    /\ param_norm = Unset
    /\ feature_mean = Unset
    /\ feature_std = Unset
    /\ target_min = Unset
    /\ target_max = Unset
    /\ get_arg = -1
    /\ get_out = [err |-> "not called"]
    /\ call_arg = <<>>
    /\ call_out = [err |-> "not called"]
    /\ NothingMore

CleanDisk ==
    /\ norm_file = [f \in Files |-> NoNorm]
    /\ rewritten = [f \in Files |-> FALSE]
    /\ nscan = [f \in Files |-> 0]

-----------------------------------------------------------------------------
(* The constructor arguments the model explores *)

Seqs(S, lo, hi) == UNION {[1..n -> S] : n \in lo..hi}

IndexFiles == {"sA", "sB", "sEmpty", "sBad"}

TrainLists == Seqs(IndexFiles, 1, MaxTrain)

NoTest == [kind |-> "none"]
TestList(fs) == [kind |-> "list", files |-> fs]
TestChoices == {NoTest} \cup {TestList(fs) : fs \in Seqs(IndexFiles, 0, MaxTest)}

PdbChoices ==
    {<<>>, <<"m1", "m2">>, <<"m2", "m5", "m9">>, <<"m3", "m3", "m4">>}

NoFilter == [kind |-> "none"]
Filter(items) == [kind |-> "dict", items |-> items]
FilterChoices ==
    {NoFilter,
     \* {'IRMSD': '<4 or >10'}
     Filter(<< <<"IRMSD", StrCond(<<Op("<"), Num(4), Kw("or"),
                                    Op(">"), Num(10)>>)>> >>),
     \* {'DOCKQ': '==1', 'IRMSD': '>2 and <12'}
     Filter(<< <<"DOCKQ", StrCond(<<Op("=="), Num(1)>>)>>,
               <<"IRMSD", StrCond(<<Op(">"), Num(2), Kw("and"),
                                    Op("<"), Num(12)>>)>> >>),
     \* {'DOCKQ': [0., 0.6]}
     Filter(<< <<"DOCKQ", ListCond>> >>)}

GroupNames == {gD, gF, gH}
NameAtoms ==
    {nP, nPQ, nQ, nX, <<"p", star>>, <<"x", star>>, nP \o tagA, nMid}

GroupRequests ==
    {AllReq} \cup {ListReq(ns) : ns \in Seqs(NameAtoms, 0, MaxNames)}

\* one requested group, or one requested group followed by another one
Requests ==
    {SelAll}
    \cup {SelDict(<< <<g, r>> >>) : g \in GroupNames, r \in GroupRequests}
    \cup {s \in {SelDict(<< <<g, r>>, <<h, q>> >>) :
                     g \in GroupNames, r \in GroupRequests,
                     h \in {gD, gF}, q \in {AllReq, ListReq(<<nPQ, nP>>)}} :
              s.items[1][1] # s.items[2][1]}

ResolveFiles == {"sA", "sB", "sC"}

\* the requests whose resolved selection the loader is run with
LoadAtoms == {nP, nQ, nX, <<"p", star>>}
LoadRequests ==
    {SelAll}
    \cup {SelDict(<< <<g, r>> >>) :
              g \in GroupNames,
              r \in {AllReq} \cup {ListReq(ns) : ns \in Seqs(LoadAtoms, 0, MaxNames)}}
    \cup {SelDict(<< <<gD, AllReq>>, <<gF, ListReq(ns)>> >>) :
              ns \in Seqs(LoadAtoms, 1, MaxNames)}

Shapes == {Cells, <<3, 1, 1>>}
Targets == {"IRMSD", "DOCKQ"}

NoLoad == Raised("not called")

-----------------------------------------------------------------------------
(* Setup: process_dataset, stage by stage *)

InitIndex ==
    /\ pc = "check"
    /\ err = "none"
    /\ database \in TrainLists
    /\ test_database \in TestChoices
    /\ select_pdb \in PdbChoices
    /\ dict_filter \in FilterChoices
    /\ index_complexes = <<>>
    /\ ntrain = 0
    /\ ntot = 0
    /\ index_train = <<>>
    /\ index_test = <<>>
    /\ ignored = {}
    /\ request = SelAll
    /\ select_feature = request
    /\ grid_shape = Cells
    /\ select_target = "DOCKQ"
    /\ load_arg = <<>>
    /\ load_out = NoLoad
    /\ DefaultToggles
    /\ NoAttributes
    /\ CleanDisk

CheckHdf5Files ==
    /\ pc = "check"
    /\ database' = check_hdf5_files(database)
    /\ pc' = "index"
    /\ UNCHANGED <<err, test_database, select_pdb, dict_filter, indexVars,
                   select_feature, request, grid_shape, select_target,
                   loadVars, laterVars, callVars, moreVars>>

CreateIndexMolecules ==
    /\ pc = "index"
    /\ create_index_molecules
    /\ pc' = "featname"
    /\ open_files' = open_files \cup IndexLeftOpen(database, ignored')
    /\ UNCHANGED <<err, database, test_database, select_pdb, dict_filter,
                   select_feature, request, grid_shape, select_target,
                   loadVars, laterVars, callVars,
                   target_ordering, work>>

GetFeatureName ==
    /\ pc = "featname"
    /\ LET r == get_feature_name(select_feature, database)
       IN /\ select_feature' = r.sel
          /\ err' = r.err
          /\ pc' = IF r.err = "none" THEN "resolved" ELSE "raised"
    /\ open_files' = open_files
                       \cup FeatureNameLeftOpen(select_feature, database)
    /\ UNCHANGED <<database, test_database, select_pdb, dict_filter,
                   indexVars, request, grid_shape, select_target, loadVars,
                   laterVars, callVars,
                   target_ordering, work>>

NextIndex == CheckHdf5Files \/ CreateIndexMolecules \/ GetFeatureName

SpecIndex == InitIndex /\ [][NextIndex]_vars

-----------------------------------------------------------------------------
(* Feature-name resolution over the requests a caller may pass *)

InitResolve ==
    /\ pc = "featname"
    /\ err = "none"
    /\ database \in {<<f>> : f \in ResolveFiles}
    /\ test_database = NoTest
    /\ select_pdb = <<>>
    /\ dict_filter = NoFilter
    /\ index_complexes = <<>>
    /\ ntrain = 0
    /\ ntot = 0
    /\ index_train = <<>>
    /\ index_test = <<>>
    /\ ignored = {}
    /\ request \in Requests
    /\ select_feature = request
    /\ grid_shape = Cells
    /\ select_target = "DOCKQ"
    /\ load_arg = <<>>
    /\ load_out = NoLoad
    /\ DefaultToggles
    /\ NoAttributes
    /\ CleanDisk

SpecResolve == InitResolve /\ [][GetFeatureName]_vars

\* a later DataSet built with the selection an earlier one resolved (the
\* saved selection of a pretrained model): get_feature_name runs on it
GetFeatureNameAgain ==
    /\ pc = "resolved"
    /\ LET r == get_feature_name(select_feature, database)
       IN /\ request' = select_feature
          /\ select_feature' = r.sel
          /\ err' = r.err
          /\ pc' = IF r.err = "none" THEN "reused" ELSE "reraised"
    /\ open_files' = open_files
                       \cup FeatureNameLeftOpen(select_feature, database)
    /\ UNCHANGED <<database, test_database, select_pdb, dict_filter,
                   indexVars, grid_shape, select_target, loadVars,
                   laterVars, callVars,
                   target_ordering, work>>

NextReuse == GetFeatureName \/ GetFeatureNameAgain

SpecReuse == InitResolve /\ [][NextReuse]_vars

-----------------------------------------------------------------------------
(* Item loading from a dataset whose selection has been resolved *)

InitLoad ==
    /\ pc = "resolved"
    /\ err = "none"
    /\ database \in {<<f>> : f \in ResolveFiles}
    /\ test_database = NoTest
    /\ select_pdb = <<>>
    /\ dict_filter = NoFilter
    /\ index_complexes = <<>>
    /\ ntrain = 0
    /\ ntot = 0
    /\ index_train = <<>>
    /\ index_test = <<>>
    /\ ignored = {}
    /\ request \in LoadRequests
    /\ get_feature_name(request, database).err = "none"
    /\ select_feature = get_feature_name(request, database).sel
    /\ grid_shape \in Shapes
    /\ select_target \in Targets
    /\ load_arg = <<>>
    /\ load_out = NoLoad
    /\ DefaultToggles
    /\ NoAttributes
    /\ CleanDisk

LoadOneMolecule ==
    /\ pc = "resolved"
    /\ \E fname \in Files :
       \E mol \in Range(MolNames(fname)) \cup {"None"} :
          /\ load_arg' = <<fname, mol>>
          /\ load_out' = load_one_molecule(fname, mol, select_feature,
                                           select_target, grid_shape)
          /\ open_files' = open_files \cup LoadLeftOpen(fname, load_out')
    /\ UNCHANGED <<pc, err, database, test_database, select_pdb, dict_filter,
                   indexVars, select_feature, request, grid_shape,
                   select_target, laterVars, callVars,
                   target_ordering, work>>

SpecLoad == InitLoad /\ [][LoadOneMolecule]_vars


-----------------------------------------------------------------------------
(* The later stages of process_dataset, and __getitem__ *)

\* the revision of each shard: 0 as first written, 1 once rewritten
Revision == [f \in Files |-> IF rewritten[f] THEN 1 ELSE 0]

\* a variant of the stage that builds no pair indexes
GetPairingFeatureSkipped ==
    /\ pc = "resolved"
    /\ pc' = "paired"
    /\ UNCHANGED <<err, setupVars, loadVars, laterVars, callVars, moreVars>>

GetPairingFeature ==
    /\ pc = "resolved"
    /\ pair_indexes' = get_pairing_feature(select_feature, pair_chain_feature,
                                           pair_indexes)
    /\ pc' = "paired"
    /\ UNCHANGED <<err, setupVars, loadVars, toggleVars, diskVars, data_shape,
                   input_shape, statVars, itemVars, callVars, moreVars>>

\* The steps that follow a load.  Their state r is [err, mol, feature,
\* target]: the exception that ended the call if any, the entry, the feature
\* array and the target so far.

\* feature, target = self.load_one_molecule(fname, mol)
Load(entry, l) ==
    [err |-> l.err, mol |-> entry, feature |-> AsArray(l.feature),
     target |-> Rat(l.target, 1)]

\* feature = step(feature)
Feature(r, s) == [r EXCEPT !.err = s.err, !.feature = s.feature]

\* target = step(target)
Target(r, s) == [r EXCEPT !.err = s.err, !.target = s.target]

ClipStep(r) ==
    IF r.err # "none" \/ ~clip_features THEN r
    ELSE Feature(r, _clip_feature(r.feature, data_shape, feature_mean,
                                  feature_std, clip_factor))

NormalizeStep(r) ==
    IF r.err # "none" \/ ~normalize_features THEN r
    ELSE Feature(r, _normalize_feature(r.feature, data_shape, feature_mean,
                                       feature_std))

TargetStep(r) ==
    IF r.err # "none" \/ ~normalize_targets THEN r
    ELSE Target(r, _normalize_target(r.target, target_min, target_max))

PairStep(r, indexes) ==
    IF r.err # "none" \/ pair_chain_feature = NoPair THEN r
    ELSE Feature(r, make_feature_pair(r.feature, indexes, pair_chain_feature))

ProjectStep(r) ==
    IF r.err # "none" \/ ~transform THEN r
    ELSE Feature(r, convert2d(r.feature, proj2D))

\* self.data_shape and self.input_shape, raw being the loaded first complex
\* and r what pairing and projection made of it
Shapes2(raw, r) ==
    [err |-> r.err,
     data_shape |-> IF raw.err = "none" THEN Set(raw.feature.shape) ELSE Unset,
     input_shape |-> IF r.err = "none" THEN Set(r.feature.shape) ELSE Unset]

\* get_input_shape: the shapes of the first complex of database[0], raw and
\* after pairing and projection
get_input_shape(raw, indexes) == Shapes2(raw, ProjectStep(PairStep(raw, indexes)))

GetGridShape ==
    /\ pc = "paired"
    /\ LET r == get_grid_shape(database, grid_shape)
       IN /\ grid_shape' = r.grid_shape
          /\ open_files' = open_files \cup r.open
          /\ err' = r.err
          /\ pc' = IF r.err = "none" THEN "gridded" ELSE "raised"
    /\ UNCHANGED <<database, test_database, select_pdb, dict_filter,
                   indexVars, select_feature, request, select_target,
                   loadVars, laterVars, callVars, target_ordering, work>>

GetInputShape ==
    /\ pc = "gridded"
    /\ LET r == get_input_shape(
                    Load(<<database[1], "None">>,
                         load_one_molecule(database[1], "None", select_feature,
                                           select_target, grid_shape)),
                    pair_indexes)
       IN /\ data_shape' = r.data_shape
          /\ input_shape' = r.input_shape
          /\ err' = r.err
          /\ pc' = IF r.err = "none" THEN "shaped" ELSE "raised"
    /\ open_files' = open_files
                       \cup LoadLeftOpen(database[1],
                              load_one_molecule(database[1], "None",
                                                select_feature, select_target,
                                                grid_shape))
    /\ UNCHANGED <<setupVars, loadVars, toggleVars, diskVars, pair_indexes,
                   statVars, itemVars, callVars,
                   target_ordering, work>>

GetTargetOrdering ==
    /\ pc = "shaped"
    /\ target_ordering' = _get_target_ordering(select_target)
    /\ pc' = "ordered"
    /\ UNCHANGED <<err, setupVars, loadVars, laterVars, callVars, open_files,
                   work>>

\* the end of process_dataset: get_norm if a normalization is asked for,
\* then the summary, which prints input_shape[0] and data_shape[1..3]
GetNorm ==
    /\ pc = "ordered"
    /\ IF normalize_features \/ normalize_targets
       THEN LET r == get_norm(database, select_feature, select_target,
                              norm_file, nscan, Revision, grid_shape)
            IN /\ param_norm' = r.param_norm
               /\ feature_mean' = r.feature_mean
               /\ feature_std' = r.feature_std
               /\ target_min' = r.target_min
               /\ target_max' = r.target_max
               /\ norm_file' = r.disk
               /\ nscan' = r.nscan
               /\ err' = IF r.err # "none" THEN r.err
                         ELSE IF Len(data_shape.v) < 4 \/ input_shape.v = <<>>
                         THEN "IndexError"
                         ELSE "none"
       ELSE /\ UNCHANGED <<statVars, norm_file, nscan>>
            /\ err' = IF Len(data_shape.v) < 4 \/ input_shape.v = <<>>
                      THEN "IndexError"
                      ELSE "none"
    /\ pc' = IF err' = "none" THEN "ready" ELSE "raised"
    /\ UNCHANGED <<setupVars, loadVars, toggleVars, rewritten, pair_indexes,
                   data_shape, input_shape, itemVars, callVars, moreVars>>

\* what __getitem__ returns, or the exception that left it
Item(r) == IF r.err # "none" THEN [err |-> r.err] ELSE r

\* a variant of __getitem__ that normalizes the features before it clips
getitem_normalize_first(entry) ==
    Item(ProjectStep(PairStep(TargetStep(ClipStep(NormalizeStep(
        Load(entry, load_one_molecule(entry[1], entry[2], select_feature,
                                      select_target, grid_shape))))),
        pair_indexes)))

\* __getitem__(index), entry being self.index_complexes[index]
getitem(entry) ==
    Item(ProjectStep(PairStep(TargetStep(NormalizeStep(ClipStep(
        Load(entry, load_one_molecule(entry[1], entry[2], select_feature,
                                      select_target, grid_shape))))),
        pair_indexes)))

GetItem ==
    /\ pc = "ready"
    /\ \E index \in 0..(Len(index_complexes) - 1) :
          /\ get_arg' = index
          /\ get_out' = getitem(index_complexes[index + 1])
          /\ open_files' = open_files
                 \cup LoadLeftOpen(index_complexes[index + 1][1], get_out')
    /\ UNCHANGED <<pc, err, setupVars, loadVars, toggleVars, diskVars,
                   pair_indexes, data_shape, input_shape, statVars, callVars,
                   target_ordering, work>>

\* the upstream extraction stage writes a shard anew
RewriteArchive ==
    /\ \E f \in Range(database) :
          /\ ~rewritten[f]
          /\ rewritten' = [rewritten EXCEPT ![f] = TRUE]
    /\ UNCHANGED <<pc, err, setupVars, loadVars, toggleVars, norm_file, nscan,
                   pair_indexes, data_shape, input_shape, statVars, itemVars,
                   callVars, moreVars>>

-----------------------------------------------------------------------------
(* Setups that reach get_norm, one DataSet after the other on one disk *)

NormFiles == {"sA", "sB"}

NormLists == Seqs(NormFiles, 1, MaxTrain)

NormRequests ==
    {SelAll,
     SelDict(<< <<gD, AllReq>> >>),
     SelDict(<< <<gF, ListReq(<<nP>>)>> >>),
     SelDict(<< <<gF, ListReq(<<nP, nP>>)>> >>)}

NoIndex ==
    /\ index_complexes = <<>>
    /\ ntrain = 0
    /\ ntot = 0
    /\ index_train = <<>>
    /\ index_test = <<>>
    /\ ignored = {}

InitNorm ==
    /\ pc = "featname"
    /\ err = "none"
    /\ database \in NormLists
    /\ test_database = NoTest
    /\ select_pdb = <<>>
    /\ dict_filter = NoFilter
    /\ NoIndex
    /\ request \in NormRequests
    /\ select_feature = request
    /\ grid_shape = Cells
    /\ select_target = "IRMSD"
    /\ load_arg = <<>>
    /\ load_out = NoLoad
    /\ DefaultToggles
    /\ NoAttributes
    /\ CleanDisk

\* DataSet(...): a new DataSet on the same disk, once the setup of the
\* previous one has ended
NewDataSet ==
    /\ pc \in {"ready", "raised"}
    /\ pc' = "featname"
    /\ err' = "none"
    /\ database' \in NormLists
    /\ request' \in NormRequests
    /\ select_feature' = request'
    /\ pair_indexes' = Unset
    /\ data_shape' = Unset
    /\ input_shape' = Unset
    /\ param_norm' = Unset
    /\ feature_mean' = Unset
    /\ feature_std' = Unset
    /\ target_min' = Unset
    /\ target_max' = Unset
    /\ target_ordering' = NoOrdering
    /\ UNCHANGED <<test_database, select_pdb, dict_filter, indexVars,
                   grid_shape, select_target, loadVars, toggleVars, diskVars,
                   itemVars, callVars,
                   open_files, work>>

NextNorm ==
    \/ GetFeatureName
    \/ GetPairingFeature
    \/ GetGridShape
    \/ GetInputShape
    \/ GetTargetOrdering
    \/ GetNorm
    \/ RewriteArchive
    \/ NewDataSet

SpecNorm == InitNorm /\ [][NextNorm]_vars

-----------------------------------------------------------------------------
(* Item access on a DataSet, for every combination of its switches *)

GetLists == {<<"sA">>, <<"sD">>, <<"sA", "sB">>}

GetRequests ==
    {SelAll,
     SelDict(<< <<gD, AllReq>> >>),
     SelDict(<< <<gF, AllReq>> >>),
     SelDict(<< <<gF, ListReq(<<nP>>)>> >>)}

InitGet ==
    /\ pc = "resolved"
    /\ err = "none"
    /\ database \in GetLists
    /\ test_database = NoTest
    /\ select_pdb = <<>>
    /\ dict_filter = NoFilter
    /\ \E tr \in TrainPool(database, select_pdb, dict_filter) :
          /\ index_complexes = tr.entries
          /\ ntrain = Len(tr.entries)
          /\ ntot = Len(tr.entries)
          /\ index_train = PyRange(0, Len(tr.entries))
          /\ index_test = <<>>
          /\ ignored = tr.ignored
    /\ request \in GetRequests
    /\ select_feature = get_feature_name(request, database).sel
    /\ grid_shape = Cells
    /\ select_target \in Targets
    /\ load_arg = <<>>
    /\ load_out = NoLoad
    /\ normalize_features \in BOOLEAN
    /\ normalize_targets \in BOOLEAN
    /\ clip_features \in BOOLEAN
    /\ pair_chain_feature \in {NoPair, PairAdd}
    /\ transform \in BOOLEAN
    /\ proj2D \in IF transform THEN {0, 1, 2} ELSE {0}
    /\ NoAttributes
    /\ CleanDisk

NextGet ==
    \/ GetPairingFeature
    \/ GetGridShape
    \/ GetInputShape
    \/ GetTargetOrdering
    \/ GetNorm
    \/ GetItem

SpecGet == InitGet /\ [][NextGet]_vars

-----------------------------------------------------------------------------
(* _clip_feature called on its own, once and once more on its result *)

ClipValues == {Rat(-5, 1), Num0, Rat(1, 1), Rat(5, 1)}
ClipMeans == {Num0, Rat(1, 1)}
ClipStds == {Rat(1, 2), Num1, Rat(2, 1)}

\* the attributes of a DataSet that plays no part in a call
Idle ==
    /\ err = "none"
    /\ database = <<"sA">>
    /\ test_database = NoTest
    /\ select_pdb = <<>>
    /\ dict_filter = NoFilter
    /\ NoIndex
    /\ request = SelAll
    /\ select_feature = request
    /\ grid_shape = Cells
    /\ select_target = "DOCKQ"
    /\ load_arg = <<>>
    /\ load_out = NoLoad
    /\ DefaultToggles
    /\ CleanDisk
    /\ pair_indexes = Unset
    /\ input_shape = Unset
    /\ param_norm = Unset
    /\ get_arg = -1
    /\ get_out = [err |-> "not called"]
    /\ call_out = [err |-> "not called"]
    /\ NothingMore

InitClip ==
    /\ pc = "call"
    /\ Idle
    /\ call_arg \in {Array(<<2, 1>>, v) : v \in [1..2 -> ClipValues]}
    /\ data_shape = Set(call_arg.shape)
    /\ feature_mean \in {Set(m) : m \in [1..2 -> ClipMeans]}
    /\ feature_std \in {Set(s) : s \in [1..2 -> ClipStds]}
    /\ target_min = Unset
    /\ target_max = Unset

ClipFeature ==
    /\ pc = "call"
    /\ call_out' = _clip_feature(call_arg, data_shape, feature_mean,
                                 feature_std, clip_factor)
    /\ pc' = "clipped"
    /\ UNCHANGED <<err, setupVars, loadVars, laterVars, call_arg, moreVars>>

ClipAgain ==
    /\ pc = "clipped"
    /\ call_out' = _clip_feature(call_out.feature, data_shape, feature_mean,
                                 feature_std, clip_factor)
    /\ pc' = "clipped again"
    /\ UNCHANGED <<err, setupVars, loadVars, laterVars, call_arg, moreVars>>

NextClip == ClipFeature \/ ClipAgain

SpecClip == InitClip /\ [][NextClip]_vars

-----------------------------------------------------------------------------
(* _normalize_target followed by backtransform_target *)

TargetValues == {Rat(t, 1) : t \in -2..3} \cup {Rat(1, 2)}
TargetMins == {Rat(-1, 1), Num0, Rat(2, 1)}
TargetMaxs == {Rat(-2, 1), Num0, Num1, Rat(3, 1)}

InitTarget ==
    /\ pc = "call"
    /\ Idle
    /\ call_arg \in TargetValues
    /\ data_shape = Unset
    /\ feature_mean = Unset
    /\ feature_std = Unset
    /\ target_min \in {Set(m) : m \in TargetMins}
    /\ target_max \in {Set(m) : m \in TargetMaxs}
    /\ ~Less(target_max.v, target_min.v)

NormalizeTarget ==
    /\ pc = "call"
    /\ call_out' = _normalize_target(call_arg, target_min, target_max)
    /\ pc' = "normalized"
    /\ UNCHANGED <<err, setupVars, loadVars, laterVars, call_arg, moreVars>>

BacktransformTarget ==
    /\ pc = "normalized"
    /\ call_out' = backtransform_target(call_out.target, target_min, target_max)
    /\ pc' = "backtransformed"
    /\ UNCHANGED <<err, setupVars, loadVars, laterVars, call_arg, moreVars>>

NextTarget == NormalizeTarget \/ BacktransformTarget

SpecTarget == InitTarget /\ [][NextTarget]_vars

-----------------------------------------------------------------------------
(* Properties of the complex index (SpecIndex) *)

AfterIndex == pc \in {"featname", "resolved", "raised"}

TrainPart == SubSeq(index_complexes, 1, ntrain)
TestPart == SubSeq(index_complexes, ntrain + 1, Len(index_complexes))

\* the complex-ids a pool lists for file f, and how many entries list f
IdsOf(part, f) == {part[i][2] : i \in {j \in DOMAIN part : part[j][1] = f}}
CountOf(part, f) == Cardinality({j \in DOMAIN part : part[j][1] = f})

TestFiles == IF test_database.kind = "none" THEN {} ELSE Range(test_database.files)

\* the complex-ids of f that the allow-list admits
Allowed(f) ==
    IF select_pdb = <<>> THEN Range(MolNames(f))
    ELSE Range(select_pdb) \cap Range(MolNames(f))

MolOf(e) == Lookup(Archive(e[1]).mols, e[2])

\* C1: after create_index_molecules the positions [0, ntrain) hold entries
\* of train shards and [ntrain, ntot) entries of test shards, ntot is the
\* length of the index, index_train = [0..ntrain-1] and
\* index_test = [ntrain..ntot-1], disjoint and covering every position.
C1_TrainBeforeTest ==
    AfterIndex =>
        /\ ntot = Len(index_complexes)
        /\ ntrain \in 0..ntot
        /\ \A p \in 0..(ntrain - 1) :
               index_complexes[p + 1][1] \in Range(database)
        /\ \A p \in ntrain..(ntot - 1) :
               index_complexes[p + 1][1] \in TestFiles
        /\ index_train = [i \in 1..ntrain |-> i - 1]
        /\ index_test = [i \in 1..(ntot - ntrain) |-> ntrain + i - 1]
        /\ Range(index_train) \cap Range(index_test) = {}
        /\ Range(index_train) \cup Range(index_test) = 0..(ntot - 1)

\* both pools are populated and a test entry comes from a file that is not
\* a train shard
C1_Witness ==
    /\ AfterIndex
    /\ ntrain > 0
    /\ ntot > ntrain
    /\ \E p \in ntrain..(ntot - 1) :
           index_complexes[p + 1][1] \notin Range(database)

\* how many times the list fs names file f
Listed(fs, f) == Cardinality({i \in DOMAIN fs : fs[i] = f})

TestSeq == IF test_database.kind = "none" THEN <<>> ELSE test_database.files

\* C2 as stated: without a filter, the index lists for each readable shard
\* exactly its complex-ids (all N of them, or, with a non-empty select_pdb,
\* those in the intersection with the allow-list), one entry per
\* complex-id, none duplicated.
C2_OncePerShard ==
    (AfterIndex /\ dict_filter = NoFilter) =>
        \A f \in Range(database) \cup TestFiles :
            CanOpen(f) =>
                /\ IdsOf(index_complexes, f) = Allowed(f)
                /\ CountOf(index_complexes, f) = Cardinality(Allowed(f))

\* C2 amended: without a filter, each time a readable shard is named in the
\* train list or in the test list, the pool lists exactly its complex-ids
\* (all N of them, or, with a non-empty select_pdb, those in the
\* intersection with the allow-list), one entry per complex-id; a shard
\* named in neither list is not listed.
C2_OncePerListing ==
    (AfterIndex /\ dict_filter = NoFilter) =>
        /\ \A f \in Range(database) :
               CanOpen(f) =>
                   /\ IdsOf(TrainPart, f) = Allowed(f)
                   /\ CountOf(TrainPart, f) =
                          Cardinality(Allowed(f)) * Listed(database, f)
        /\ \A f \in TestFiles :
               CanOpen(f) =>
                   /\ IdsOf(TestPart, f) = Allowed(f)
                   /\ CountOf(TestPart, f) =
                          Cardinality(Allowed(f)) * Listed(TestSeq, f)
        /\ \A f \in Files \ Range(database) : CountOf(TrainPart, f) = 0
        /\ \A f \in Files \ TestFiles : CountOf(TestPart, f) = 0

\* a shard of three complexes is named in both lists and listed through an
\* allow-list that names one of its complexes twice and a complex it does
\* not hold: the complex is listed once per pool
C2_Witness ==
    /\ AfterIndex
    /\ dict_filter = NoFilter
    /\ select_pdb = <<"m3", "m3", "m4">>
    /\ "sA" \in Range(database)
    /\ "sA" \in TestFiles
    /\ IdsOf(TrainPart, "sA") = {"m3"}
    /\ IdsOf(TestPart, "sA") = {"m3"}
    /\ CountOf(index_complexes, "sA") = 2

\* C3: with a dict_filter, every entry of the final index, train pool and
\* test pool alike, is a complex whose stored targets satisfy every
\* expression of the filter.
C3_AllEntriesPassFilter ==
    (AfterIndex /\ dict_filter.kind = "dict") =>
        \A p \in DOMAIN index_complexes :
            filter(dict_filter, MolOf(index_complexes[p])) = "True"

\* C4: with a dict_filter, a complex lacking a filtered target is excluded
\* and only that complex: every admitted complex of a train shard that
\* satisfies the filter is indexed.
C4_OnlyMissingExcluded ==
    (AfterIndex /\ dict_filter.kind = "dict") =>
        \A f \in Range(database) :
            \A k \in Allowed(f) :
                filter(dict_filter, Lookup(Archive(f).mols, k)) = "True"
                    => k \in IdsOf(TrainPart, f)

\* C5: a shard that cannot be opened or holds no complex contributes no
\* entry, the complexes of the remaining shards are indexed, and setup does
\* not raise.
C5_DroppedShardNotFatal ==
    /\ AfterIndex =>
          /\ \A p \in DOMAIN index_complexes :
                 ~Rejected(index_complexes[p][1])
          /\ dict_filter = NoFilter =>
                 /\ \A f \in Range(database) : IdsOf(TrainPart, f) = Allowed(f)
                 /\ \A f \in TestFiles :
                        ~Rejected(f) => IdsOf(TestPart, f) = Allowed(f)
    /\ pc # "raised"


-----------------------------------------------------------------------------
(* Properties of the loader (SpecLoad) *)

Loaded == load_arg # <<>>
Returned == Loaded /\ load_out.err = "none"

\* the complex the last load addressed (defined when the load returned)
LoadedMol ==
    LET ms == Archive(load_arg[1]).mols
    IN IF load_arg[2] = "None" THEN ms[1][2] ELSE Lookup(ms, load_arg[2])

SelectedVisits == Visits(select_feature.items)

\* the complex stores the field of visit v; the field itself
Stored(mol, v) ==
    HasKey(mol.mapped, v[1]) /\ HasKey(Lookup(mol.mapped, v[1]), v[2])
Field(mol, v) == Lookup(Lookup(mol.mapped, v[1]), v[2])

\* C6: load_one_molecule returns a complete channel stack, channel i holding
\* the stored field of the i-th selected name, or raises; when a selected
\* name, a selected group or the target is absent from the complex it
\* raises.
C6_CompleteOrRaises ==
    /\ Returned =>
          /\ Len(load_out.feature) = Len(SelectedVisits)
          /\ \A i \in DOMAIN SelectedVisits :
                 /\ Stored(LoadedMol, SelectedVisits[i])
                 /\ load_out.feature[i].value =
                        Decode(Field(LoadedMol, SelectedVisits[i]),
                               grid_shape).mat.value
          /\ select_target \in DOMAIN LoadedMol.targets
    /\ (/\ Loaded
        /\ CanOpen(load_arg[1])
        /\ \/ select_target \notin DOMAIN LoadedMol.targets
           \/ \E i \in DOMAIN SelectedVisits :
                  ~Stored(LoadedMol, SelectedVisits[i]))
       => load_out.err # "none"

\* C7: the returned tensor has one channel per resolved name and the shape
\* (channel_count, *grid_shape); channel i is the field of the i-th name in
\* group order then name order, sparse fields decoded with grid_shape,
\* dense fields as stored.
C7_ChannelOrderAndShape ==
    Returned =>
        /\ Len(load_out.feature) = Len(SelectedVisits)
        /\ \A i \in DOMAIN SelectedVisits :
               LET v == SelectedVisits[i]
               IN /\ load_out.feature[i].shape = grid_shape
                  /\ Stored(LoadedMol, v)
                  /\ load_out.feature[i] =
                         (IF Field(LoadedMol, v).sparse
                          THEN to_dense(Field(LoadedMol, v).index,
                                        Field(LoadedMol, v).value,
                                        grid_shape).mat
                          ELSE [shape |-> Field(LoadedMol, v).shape,
                                value |-> Field(LoadedMol, v).value])


-----------------------------------------------------------------------------
(* Properties of the feature-name resolution (SpecResolve) *)

Resolved == pc = "resolved"
Catalog == mapped_data(database)

HasStar(name) == \E i \in DOMAIN name : name[i] = star
EndsWith(s, t) == Len(t) <= Len(s) /\ SubSeq(s, Len(s) - Len(t) + 1, Len(s)) = t
HasTag(name) == IsSubstr(tagA, name) \/ IsSubstr(tagB, name)

\* the names the resolution of the list ns alone gives for group g
Alone(g, ns) == ResolveGroup(g, ListReq(ns), Catalog).req.names

\* the resolved names of item i equal: what the names before position j
\* give, then mid, then what the names after position j give
PlacedAt(i, j, mid) ==
    LET g == request.items[i][1]
        ns == request.items[i][2].names
    IN select_feature.items[i][2].names =
           Alone(g, SubSeq(ns, 1, j - 1)) \o mid
           \o Alone(g, SubSeq(ns, j + 1, Len(ns)))

\* C8: a selection 'all' resolves to every group of the first complex of
\* the first shard with every name stored for it, and a group requested as
\* 'all' resolves to every name stored for that group, each once and in
\* catalog order.
C8_AllListsCatalog ==
    Resolved =>
        IF request.kind = "all"
        THEN /\ Len(select_feature.items) = Len(Catalog)
             /\ \A i \in DOMAIN Catalog :
                    /\ select_feature.items[i][1] = Catalog[i][1]
                    /\ select_feature.items[i][2].names = Keys(Catalog[i][2])
        ELSE \A i \in DOMAIN request.items :
                 request.items[i][2].all =>
                     LET names == select_feature.items[i][2].names
                         stored == Lookup(Catalog, request.items[i][1])
                     IN /\ select_feature.items[i][1] = request.items[i][1]
                        /\ Len(names) = Len(stored)
                        /\ \A k \in DOMAIN stored : names[k] = stored[k][1]
                        /\ NoDup(names)

\* the five names of the per-chain group of shard sC are listed for 'all'
C8_Witness ==
    /\ Resolved
    /\ database = <<"sC">>
    /\ request.kind = "dict"
    /\ \E i \in DOMAIN request.items :
           /\ request.items[i][2].all
           /\ Len(select_feature.items[i][2].names) = 5

\* C9 as stated: in a per-chain group a requested name that ends with no
\* chain suffix and holds no wildcard resolves to name+'_chainA',
\* name+'_chainB' at the position of the requested name.
C9_BareBySuffix ==
    (Resolved /\ request.kind = "dict") =>
        \A i \in DOMAIN request.items :
            (~request.items[i][2].all /\ IsSubstr(indMark, request.items[i][1])) =>
                \A j \in DOMAIN request.items[i][2].names :
                    LET n == request.items[i][2].names[j]
                    IN (~EndsWith(n, tagA) /\ ~EndsWith(n, tagB) /\ ~HasStar(n))
                           => PlacedAt(i, j, <<n \o tagA, n \o tagB>>)

\* C9 amended: in a per-chain group a requested name that contains neither
\* '_chainA' nor '_chainB' anywhere in it and no wildcard resolves to
\* name+'_chainA', name+'_chainB' at the position of the requested name.
C9_BareByContainment ==
    (Resolved /\ request.kind = "dict") =>
        \A i \in DOMAIN request.items :
            (~request.items[i][2].all /\ IsSubstr(indMark, request.items[i][1])) =>
                \A j \in DOMAIN request.items[i][2].names :
                    LET n == request.items[i][2].names[j]
                    IN (~HasTag(n) /\ ~HasStar(n))
                           => PlacedAt(i, j, <<n \o tagA, n \o tagB>>)

\* two bare names in a row, the second one first in the catalog
C9_Witness ==
    /\ Resolved
    /\ request = SelDict(<< <<gF, ListReq(<<nPQ, nP>>)>> >>)
    /\ select_feature.items[1][2].names =
           <<nPQ \o tagA, nPQ \o tagB, nP \o tagA, nP \o tagB>>

\* the items before item i resolve without an exception
EarlierFine(i) ==
    \A k \in 1..(i - 1) :
        ResolveGroup(request.items[k][1], request.items[k][2], Catalog).err
            = "none"

\* C10: in every requested group that the catalog holds, a requested name
\* containing '*' expands, at its position, to the stored names of the group
\* that start with the text before the marker, in catalog order.
C10_WildcardEveryGroup ==
    (pc \in {"resolved", "raised"} /\ request.kind = "dict") =>
        \A i \in DOMAIN request.items :
            (/\ ~request.items[i][2].all
             /\ HasKey(Catalog, request.items[i][1])
             /\ EarlierFine(i)) =>
                \A j \in DOMAIN request.items[i][2].names :
                    LET n == request.items[i][2].names[j]
                        stored == Keys(Lookup(Catalog, request.items[i][1]))
                    IN HasStar(n) =>
                           PlacedAt(i, j,
                               SelectSeq(stored, LAMBDA k :
                                   StartsWith(k, SplitFirst(n, star))))

-----------------------------------------------------------------------------
(* Properties of a resolution fed with a resolved selection (SpecReuse) *)

\* C11: resolution is idempotent on resolved selections: get_feature_name run
\* on the selection an earlier get_feature_name produced succeeds and gives
\* the same groups with the same names in the same order.
C11_ReuseIdempotent ==
    pc \in {"reused", "reraised"} =>
        pc = "reused" /\ select_feature = request

\* C12: a selection that names a group absent from the catalog of the first
\* shard makes the resolution raise, whatever the form of the request ('all',
\* a wildcard or a list of names), the available groups being reported.
C12_AbsentGroupRaises ==
    (/\ pc \in {"resolved", "raised"}
     /\ request.kind = "dict"
     /\ \E i \in DOMAIN request.items : ~HasKey(Catalog, request.items[i][1]))
        => pc = "raised"

-----------------------------------------------------------------------------
(* Properties of the pooled statistics (SpecNorm) *)

Normed == pc = "ready" /\ param_norm.set /\ feature_mean.set /\ feature_std.set

\* the (group, name) of each channel, in channel order
Channels == Visits(select_feature.items)

\* what the cache file of shard f holds for the channel ch
CachedStat(f, ch) == Lookup(Lookup(norm_file[f].data.features, ch[1]), ch[2])

RECURSIVE Total(_)
Total(s) == IF s = <<>> THEN Num0 ELSE Plus(Head(s), Total(Tail(s)))

\* the mean of the numbers s
Average(s) == Over(Total(s), Rat(Len(s), 1))

\* the pooled NormParam of the channel ch
Pooled(ch) == ParamOf(param_norm.v.features, ch)

\* C13: for n >= 1 training shards, the pooled mean of a selected feature is
\* the sum of the cached shard means divided by n and its pooled variance
\* the sum of the cached shard variances divided by n: each shard is
\* accumulated once and n is the number of shards accumulated.
C13_PooledIsShardAverage ==
    Normed =>
        \A i \in DOMAIN Channels :
            /\ Pooled(Channels[i]).mean
                   = Average([k \in DOMAIN database |->
                                 CachedStat(database[k], Channels[i]).mean])
            /\ Pooled(Channels[i]).var
                   = Average([k \in DOMAIN database |->
                                 CachedStat(database[k], Channels[i]).var])

\* the values a channel is probed with
Probes == {Rat(-5, 1), Num0, Rat(7, 2)}

\* _normalize_feature applied to one value x per channel
Normalized(x) ==
    _normalize_feature(Array(<<Len(Channels), 1>>, [k \in DOMAIN Channels |-> x]),
                       Set(<<Len(Channels), 1>>), feature_mean, feature_std)

\* how often the resolved selection lists the name of channel ch in its group
Listings(ch) == Cardinality({i \in DOMAIN Channels : Channels[i] = ch})

\* C14: after get_norm no entry of feature_std is zero; a channel whose
\* pooled variance is zero has std 1, keeps its pooled mean, and
\* _normalize_feature only subtracts that mean from it.
C14_StdNeverZero ==
    Normed =>
        \A i \in DOMAIN Channels :
            /\ ~IsZero(feature_std.v[i])
            /\ feature_std.v[i] = Pooled(Channels[i]).std
            /\ IsZero(Pooled(Channels[i]).var) =>
                  /\ feature_std.v[i] = Num1
                  /\ feature_mean.v[i]
                         = Times(Rat(Listings(Channels[i]), 1),
                                 Average([k \in DOMAIN database |->
                                     CachedStat(database[k], Channels[i]).mean]))
                  /\ \A x \in Probes :
                         /\ Normalized(x).err = "none"
                         /\ Normalized(x).feature.value[i]
                                = Minus(x, feature_mean.v[i])

C14_Witness ==
    /\ Normed
    /\ Len(database) = 2
    /\ \E i, j \in DOMAIN Channels :
          /\ IsZero(Pooled(Channels[i]).var)
          /\ feature_std.v[i] = Num1
          /\ ~IsZero(feature_mean.v[i])
          /\ ~IsZero(Pooled(Channels[j]).var)
          /\ feature_std.v[j] # Num1

\* the cache file of shard f no longer tells what the shard holds
Stale(f) ==
    /\ norm_file[f].exists
    /\ norm_file[f].data # NormalizeData(f, grid_shape, Revision[f]).data

\* C15: the scan of a shard runs only when its sibling cache file is absent,
\* and creates it; an existing cache file is never recomputed or rewritten,
\* even when the shard has changed since the file was written.
C15_CacheReadAsIs ==
    [][\A f \in Files :
          /\ norm_file[f].exists =>
                 norm_file'[f] = norm_file[f] /\ nscan'[f] = nscan[f]
          /\ nscan'[f] # nscan[f] =>
                 /\ ~norm_file[f].exists
                 /\ norm_file'[f].exists
                 /\ nscan'[f] = nscan[f] + 1]_vars

C15_Witness ==
    /\ Normed
    /\ \E f \in Range(database) :
          /\ Stale(f)
          /\ nscan[f] = 1
          /\ \A i \in DOMAIN Channels :
                 Pooled(Channels[i]).mean
                     = Times(Rat(Listings(Channels[i]), 1),
                             Average([k \in DOMAIN database |->
                                 CachedStat(database[k], Channels[i]).mean]))

-----------------------------------------------------------------------------
(* Properties of item access (SpecGet) *)

Got == pc = "ready" /\ get_out.err # "not called"

\* the entry of the last __getitem__ and what load_one_molecule gives for it
Entry == index_complexes[get_arg + 1]
RawLoad ==
    load_one_molecule(Entry[1], Entry[2], select_feature, select_target,
                      grid_shape)
Raw == AsArray(RawLoad.feature)

\* x limited to [lo, hi]
Clamp(x, lo, hi) == IF Less(x, lo) THEN lo ELSE IF Less(hi, x) THEN hi ELSE x

\* the value x of raw channel c (counted from 1) once clipped
Clipped(x, c) ==
    Clamp(x,
          Minus(feature_mean.v[c], Times(clip_factor, feature_std.v[c])),
          Plus(feature_mean.v[c], Times(clip_factor, feature_std.v[c])))

\* the value x of raw channel c after the enabled ones of clip and normalize
PerChannel(x, c) ==
    LET y == IF clip_features THEN Clipped(x, c) ELSE x
    IN IF normalize_features
       THEN Over(Minus(y, feature_mean.v[c]), feature_std.v[c])
       ELSE y

\* the raw stack, each value replaced by PerChannel of it
Scaled ==
    Array(Raw.shape,
          [k \in DOMAIN Raw.value |-> PerChannel(Raw.value[k], ChanOf(Raw, k) + 1)])

\* the enabled ones of pairing and projection, applied to the array a
Shaped(a) ==
    LET p == IF pair_chain_feature # NoPair
             THEN make_feature_pair(a, pair_indexes, pair_chain_feature).feature
             ELSE a
    IN IF transform THEN convert2d(p, proj2D).feature ELSE p

ExpectedTarget ==
    IF normalize_targets
    THEN Over(Minus(Rat(RawLoad.target, 1), target_min.v), target_max.v)
    ELSE Rat(RawLoad.target, 1)

\* C16: get(index) loads the complex and then applies the enabled steps in
\* the order clip, normalize feature, normalize target, chain-pair, project
\* to 2-D: clipping and feature normalization act on the raw, unpaired
\* channels, with the statistics of the raw channel position.
C16_StepOrder ==
    (Got /\ get_out.err = "none") =>
        /\ get_out.mol = Entry
        /\ get_out.feature = Shaped(Scaled)
        /\ get_out.target = ExpectedTarget

C16_Witness ==
    /\ Got
    /\ get_out.err = "none"
    /\ clip_features /\ normalize_features /\ normalize_targets
    /\ pair_chain_feature # NoPair
    /\ transform
    /\ \E k \in DOMAIN Raw.value :
          Clipped(Raw.value[k], ChanOf(Raw, k) + 1) # Raw.value[k]
    /\ get_out.feature.value # Raw.value

\* C17: whatever the combination of the switches (clipping with both
\* normalizations off included), once setup has succeeded get(index)
\* succeeds for every valid index and applies exactly the enabled steps:
\* every attribute a step reads has been set by setup.
C17_EveryToggleCombination ==
    Got =>
        /\ get_out.err = "none"
        /\ get_out.feature = Shaped(Scaled)
        /\ get_out.target = ExpectedTarget

\* C20: for every configuration whose setup succeeded, backtransform_target
\* applied to the target get(index) returns gives the stored target,
\* whether target normalization is enabled or not.
C20_ReportedTargetIsStored ==
    (Got /\ get_out.err = "none") =>
        backtransform_target(get_out.target, target_min, target_max)
            = [err |-> "none", data |-> Rat(RawLoad.target, 1)]

-----------------------------------------------------------------------------
(* Properties of the transform functions called alone (SpecClip,           *)
(* SpecTarget)                                                             *)

\* the larger and the smaller of two numbers
Max2(x, y) == IF Less(x, y) THEN y ELSE x
Min2(x, y) == IF Less(y, x) THEN y ELSE x

\* C18: _clip_feature maps the value x of channel c to
\* min(max(x, mean_c - k std_c), mean_c + k std_c): a value inside the
\* interval is unchanged, every channel is clipped, and clipping twice
\* equals clipping once.
C18_ClipIsClamp ==
    pc \in {"clipped", "clipped again"} =>
        /\ call_out.err = "none"
        /\ call_out.feature.shape = call_arg.shape
        /\ \A c \in 1..call_arg.shape[1] :
              LET lo == Minus(feature_mean.v[c],
                              Times(clip_factor, feature_std.v[c]))
                  hi == Plus(feature_mean.v[c],
                             Times(clip_factor, feature_std.v[c]))
                  x == Chan(call_arg, c - 1)[1]
                  y == Chan(call_out.feature, c - 1)[1]
              IN /\ y = Min2(Max2(x, lo), hi)
                 /\ (~Less(x, lo) /\ ~Less(hi, x)) => y = x

C18_Witness ==
    /\ pc = "clipped again"
    /\ call_out.err = "none"
    /\ call_out.feature.value[1] # call_arg.value[1]
    /\ call_out.feature.value[2] = call_arg.value[2]
    /\ feature_mean.v[1] # feature_mean.v[2]
    /\ feature_std.v[1] # feature_std.v[2]

\* C19: for fixed target_min and target_max and every target value t,
\* backtransform_target(_normalize_target(t)) = t.
C19_RoundTrip ==
    pc = "backtransformed" =>
        call_out = [err |-> "none", data |-> call_arg]

-----------------------------------------------------------------------------
(* make_feature_pair called on its own *)

PairValues == {Num0, Num1}

\* the lists of index groups the call is given
PairGroups ==
    {<< <<0, 1>> >>,
     << <<0, 1>>, <<2, 3>> >>,
     << <<0>>, <<1>> >>,
     << <<0>>, <<1, 2>> >>,
     << <<0, 1>>, <<2>>, <<3>> >>,
     << <<3>> >>}

InitPair ==
    /\ pc = "call"
    /\ Idle
    /\ call_arg \in {[feature |-> Array(<<4, 1, 1, 2>>, v), indexes |-> g] :
                        v \in [1..8 -> PairValues], g \in PairGroups}
    /\ data_shape = Unset
    /\ feature_mean = Unset
    /\ feature_std = Unset
    /\ target_min = Unset
    /\ target_max = Unset

MakeFeaturePair ==
    /\ pc = "call"
    /\ call_out' = make_feature_pair(call_arg.feature, Set(call_arg.indexes),
                                     PairAdd)
    /\ pc' = "pair made"
    /\ UNCHANGED <<err, setupVars, loadVars, laterVars, call_arg, moreVars>>

SpecPair == InitPair /\ [][MakeFeaturePair]_vars

-----------------------------------------------------------------------------
(* convert2d called on its own *)

\* the largest length of a dimension of the tensors convert2d is given
MaxDim == 2

ProjectShapes == {<<c, x, y, z>> : c, x, y, z \in 1..MaxDim}

\* a tensor whose elements are all different: element k holds k
Labelled(shape) == Array(shape, [k \in 1..Prod(shape) |-> Rat(k, 1)])

InitProject ==
    /\ pc = "call"
    /\ Idle
    /\ call_arg \in {[feature |-> Labelled(s), proj2d |-> p] :
                        s \in ProjectShapes, p \in 0..3}
    /\ data_shape = Unset
    /\ feature_mean = Unset
    /\ feature_std = Unset
    /\ target_min = Unset
    /\ target_max = Unset

Convert2d ==
    /\ pc = "call"
    /\ call_out' = convert2d(call_arg.feature, call_arg.proj2d)
    /\ pc' = "projected"
    /\ UNCHANGED <<err, setupVars, loadVars, laterVars, call_arg, moreVars>>

SpecProject == InitProject /\ [][Convert2d]_vars

-----------------------------------------------------------------------------
(* Feature-name resolution followed by get_pairing_feature, for a DataSet  *)
(* that pairs the chain features                                           *)

InitPairing ==
    /\ pc = "featname"
    /\ err = "none"
    /\ database \in {<<f>> : f \in ResolveFiles}
    /\ test_database = NoTest
    /\ select_pdb = <<>>
    /\ dict_filter = NoFilter
    /\ NoIndex
    /\ request \in Requests
    /\ select_feature = request
    /\ grid_shape = Cells
    /\ select_target = "DOCKQ"
    /\ load_arg = <<>>
    /\ load_out = NoLoad
    /\ normalize_features = TRUE
    /\ normalize_targets = TRUE
    /\ clip_features = TRUE
    /\ pair_chain_feature = PairAdd
    /\ transform = FALSE
    /\ proj2D = 0
    /\ NoAttributes
    /\ CleanDisk

NextPairing == GetFeatureName \/ GetPairingFeature

SpecPairing == InitPairing /\ [][NextPairing]_vars

-----------------------------------------------------------------------------
(* The whole of process_dataset, from check_hdf5_files to get_norm, over   *)
(* the arguments that decide which stage raises and what each one leaves   *)

SetupLists ==
    {<<"sA">>, <<"sB">>, <<"sC">>, <<"sD">>, <<"sA", "sB">>, <<"sB", "sA">>,
     <<"sBad", "sA">>, <<"sEmpty">>}

\* no allow-list, one that names complexes of sA and one that names none
SetupPdbs == {<<>>, <<"m1", "m2">>, <<"m9">>}

\* {'IRMSD': '<0'}: no complex passes
RejectAll == Filter(<< <<"IRMSD", StrCond(<<Op("<"), Num(0)>>)>> >>)

SetupFilters ==
    {NoFilter,
     RejectAll,
     \* {'DOCKQ': [0., 0.6]}: the filter raises
     Filter(<< <<"DOCKQ", ListCond>> >>)}

SetupRequests ==
    {SelAll,
     SelDict(<< <<gF, ListReq(<<nP>>)>> >>),
     SelDict(<< <<gF, ListReq(<<nX>>)>> >>),
     SelDict(<< <<gH, AllReq>> >>)}

SetupShapes == {NoShape, Cells}

SetupTargets == {"IRMSD", "DOCKQ", "BIN_CLASS"}

Orderings == {NoOrdering, "lower", "higher"}

InitSetup ==
    /\ pc = "check"
    /\ err = "none"
    /\ database \in SetupLists
    /\ test_database = NoTest
    /\ select_pdb \in SetupPdbs
    /\ dict_filter \in SetupFilters
    /\ NoIndex
    /\ request \in SetupRequests
    /\ select_feature = request
    /\ grid_shape \in SetupShapes
    /\ select_target \in SetupTargets
    /\ load_arg = <<>>
    /\ load_out = NoLoad
    /\ normalize_features = TRUE
    /\ normalize_targets = TRUE
    /\ clip_features = TRUE
    /\ pair_chain_feature \in {NoPair, PairAdd}
    /\ transform = FALSE
    /\ proj2D = 0
    /\ pair_indexes = Unset
    /\ data_shape = Unset
    /\ input_shape = Unset
    /\ param_norm = Unset
    /\ feature_mean = Unset
    /\ feature_std = Unset
    /\ target_min = Unset
    /\ target_max = Unset
    /\ get_arg = -1
    /\ get_out = [err |-> "not called"]
    /\ call_arg = <<>>
    /\ call_out = [err |-> "not called"]
    /\ target_ordering \in Orderings
    /\ open_files = {}
    /\ work = NoWork
    /\ CleanDisk

\* len(dataset)
__len__ == Len(index_complexes)

NextSetup ==
    \/ CheckHdf5Files
    \/ CreateIndexMolecules
    \/ GetFeatureName
    \/ GetPairingFeature
    \/ GetGridShape
    \/ GetInputShape
    \/ GetTargetOrdering
    \/ GetNorm
    \/ GetItem

SpecSetup == InitSetup /\ [][NextSetup]_vars

-----------------------------------------------------------------------------
(* __getitem__ called by several workers on one DataSet, statement by     *)
(* statement: a worker holds its own feature and target, and every          *)
(* statement reads the attributes of the DataSet as they are at that time   *)

InitWorkers ==
    /\ pc = "resolved"
    /\ err = "none"
    /\ database \in {<<"sA">>, <<"sD">>}
    /\ test_database = NoTest
    /\ select_pdb = <<>>
    /\ dict_filter = NoFilter
    /\ \E tr \in TrainPool(database, select_pdb, dict_filter) :
          /\ index_complexes = tr.entries
          /\ ntrain = Len(tr.entries)
          /\ ntot = Len(tr.entries)
          /\ index_train = PyRange(0, Len(tr.entries))
          /\ index_test = <<>>
          /\ ignored = tr.ignored
    /\ request \in {SelAll, SelDict(<< <<gF, AllReq>> >>)}
    /\ select_feature = get_feature_name(request, database).sel
    /\ grid_shape = Cells
    /\ select_target = "IRMSD"
    /\ load_arg = <<>>
    /\ load_out = NoLoad
    /\ normalize_features \in BOOLEAN
    /\ normalize_targets = TRUE
    /\ clip_features \in BOOLEAN
    /\ pair_chain_feature \in {NoPair, PairAdd}
    /\ transform \in BOOLEAN
    /\ proj2D = 0
    /\ NoAttributes
    /\ CleanDisk

\* the worker goes from one statement of __getitem__ to the next
Advance(w, from, to, r) ==
    /\ work[w].stage = from
    /\ work' = [work EXCEPT ![w] = [stage |-> to, index |-> work[w].index,
                                    r |-> r]]

\* fname, mol = self.index_complexes[index]
WorkerCall(w) ==
    /\ pc = "ready"
    /\ work[w].stage \in {"idle", "returned"}
    /\ \E index \in 0..(Len(index_complexes) - 1) :
          work' = [work EXCEPT ![w] = [stage |-> "called", index |-> index,
                                       r |-> [err |-> "none"]]]
    /\ UNCHANGED <<pc, err, setupVars, loadVars, laterVars, callVars,
                   target_ordering, open_files>>

\* feature, target = self.load_one_molecule(fname, mol)
WorkerLoad(w) ==
    /\ work[w].stage = "called"
    /\ LET entry == index_complexes[work[w].index + 1]
           l == load_one_molecule(entry[1], entry[2], select_feature,
                                  select_target, grid_shape)
       IN /\ Advance(w, "called", "loaded", Load(entry, l))
          /\ open_files' = open_files \cup LoadLeftOpen(entry[1], l)
    /\ UNCHANGED <<pc, err, setupVars, loadVars, laterVars, callVars,
                   target_ordering>>

WorkerClip(w) ==
    /\ Advance(w, "loaded", "clipped", ClipStep(work[w].r))
    /\ UNCHANGED <<pc, err, setupVars, loadVars, laterVars, callVars,
                   target_ordering, open_files>>

WorkerNormalize(w) ==
    /\ Advance(w, "clipped", "normalized", NormalizeStep(work[w].r))
    /\ UNCHANGED <<pc, err, setupVars, loadVars, laterVars, callVars,
                   target_ordering, open_files>>

WorkerTarget(w) ==
    /\ Advance(w, "normalized", "targeted", TargetStep(work[w].r))
    /\ UNCHANGED <<pc, err, setupVars, loadVars, laterVars, callVars,
                   target_ordering, open_files>>

\* a variant of the pairing statement that keeps the shape of the paired
\* feature in self.data_shape
WorkerPairKeepsShape(w) ==
    /\ Advance(w, "targeted", "paired", PairStep(work[w].r, pair_indexes))
    /\ data_shape' = IF work'[w].r.err = "none" /\ pair_chain_feature # NoPair
                     THEN Set(work'[w].r.feature.shape)
                     ELSE data_shape
    /\ UNCHANGED <<pc, err, setupVars, loadVars, toggleVars, diskVars,
                   pair_indexes, input_shape, statVars, itemVars, callVars,
                   target_ordering, open_files>>

WorkerPair(w) ==
    /\ Advance(w, "targeted", "paired", PairStep(work[w].r, pair_indexes))
    /\ UNCHANGED <<pc, err, setupVars, loadVars, laterVars, callVars,
                   target_ordering, open_files>>

WorkerProject(w) ==
    /\ Advance(w, "paired", "projected", ProjectStep(work[w].r))
    /\ UNCHANGED <<pc, err, setupVars, loadVars, laterVars, callVars,
                   target_ordering, open_files>>

\* return {'mol': [fname, mol], 'feature': feature, 'target': target}, or
\* the exception of an earlier statement leaves the call
WorkerReturn(w) ==
    /\ Advance(w, "projected", "returned", Item(work[w].r))
    /\ UNCHANGED <<pc, err, setupVars, loadVars, laterVars, callVars,
                   target_ordering, open_files>>

NextWorkers ==
    \/ GetPairingFeature
    \/ GetGridShape
    \/ GetInputShape
    \/ GetTargetOrdering
    \/ GetNorm
    \/ \E w \in Workers :
          \/ WorkerCall(w)
          \/ WorkerLoad(w)
          \/ WorkerClip(w)
          \/ WorkerNormalize(w)
          \/ WorkerTarget(w)
          \/ WorkerPair(w)
          \/ WorkerProject(w)
          \/ WorkerReturn(w)

SpecWorkers == InitWorkers /\ [][NextWorkers]_vars

-----------------------------------------------------------------------------
(* Properties of make_feature_pair and convert2d called alone (SpecPair,   *)
(* SpecProject)                                                            *)

\* C21: make_feature_pair returns one channel per index group, each with
\* the spatial shape of an input channel: a group [i, j] gives
\* op(feature[i], feature[j]), a group [i] gives feature[i] unchanged,
\* whatever the mix of one-index and two-index groups.
C21_OneChannelPerGroup ==
    pc = "pair made" =>
        /\ call_out.err = "none"
        /\ call_out.feature.shape
               = <<Len(call_arg.indexes)>> \o Tail(call_arg.feature.shape)
        /\ \A g \in DOMAIN call_arg.indexes :
              Chan(call_out.feature, g - 1)
                  = IF Len(call_arg.indexes[g]) = 1
                    THEN Chan(call_arg.feature, call_arg.indexes[g][1])
                    ELSE [k \in 1..Stride(call_arg.feature) |->
                             Plus(Chan(call_arg.feature,
                                       call_arg.indexes[g][1])[k],
                                  Chan(call_arg.feature,
                                       call_arg.indexes[g][2])[k])]

\* the shape (C, X, Y, Z) of the tensor convert2d was given
InC == call_arg.feature.shape[1]
InX == call_arg.feature.shape[2]
InY == call_arg.feature.shape[3]
InZ == call_arg.feature.shape[4]

\* C22: for a tensor of shape (C, X, Y, Z), all dimensions >= 1, convert2d
\* with axis 0, 1 or 2 returns a tensor of shape (C*X, Y, Z), (C*Y, X, Z) or
\* (C*Z, X, Y): only the unit dimension the projection introduces is
\* removed.
C22_ProjectedShape ==
    (pc = "projected" /\ call_arg.proj2d \in 0..2) =>
        /\ call_out.err = "none"
        /\ call_out.feature.shape
               = CASE call_arg.proj2d = 0 -> <<InC * InX, InY, InZ>>
                   [] call_arg.proj2d = 1 -> <<InC * InY, InX, InZ>>
                   [] call_arg.proj2d = 2 -> <<InC * InZ, InX, InY>>

\* the position of the element idx in the row-major order of shape
RECURSIVE Flat(_, _)
Flat(shape, idx) ==
    IF idx = <<>> THEN 0
    ELSE Flat(SubSeq(shape, 1, Len(shape) - 1), SubSeq(idx, 1, Len(idx) - 1))
             * shape[Len(shape)] + idx[Len(idx)]

\* a[idx]
At(a, idx) == a.value[Flat(a.shape, idx) + 1]

\* C28: convert2d moves the projected axis into the channel dimension
\* without mixing data: output[c*X + x, y, z], output[c*Y + y, x, z] or
\* output[c*Z + z, x, y] is input[c, x, y, z] for axis 0, 1 or 2.
C28_ProjectionKeepsSlices ==
    (pc = "projected" /\ call_arg.proj2d \in 0..2) =>
        /\ call_out.err = "none"
        /\ Len(call_out.feature.shape) = 3
        /\ \A c \in 0..(InC - 1), x \in 0..(InX - 1),
              y \in 0..(InY - 1), z \in 0..(InZ - 1) :
              At(call_arg.feature, <<c, x, y, z>>)
                  = At(call_out.feature,
                       CASE call_arg.proj2d = 0 -> <<c * InX + x, y, z>>
                         [] call_arg.proj2d = 1 -> <<c * InY + y, x, z>>
                         [] call_arg.proj2d = 2 -> <<c * InZ + z, x, y>>)

-----------------------------------------------------------------------------
(* Properties of the pair indexes (SpecPairing) *)

Paired == pc = "paired" /\ pair_indexes.set

\* the name without its last Len(tag) characters
Stem(name, tag) == SubSeq(name, 1, Len(name) - Len(tag))

\* C30: the pair indexes partition the raw channel positions
\* [0, channel_count): each position is in exactly one group, a two-index
\* group [i, i+1] lies inside one per-chain group and joins the _chainA and
\* _chainB channels of one feature, and no index is >= channel_count, also
\* when a per-chain group resolves to an odd number of names.
C30_PairIndexesPartition ==
    Paired =>
        /\ Concat(pair_indexes.v) = [k \in DOMAIN Channels |-> k - 1]
        /\ \A g \in DOMAIN pair_indexes.v :
              Len(pair_indexes.v[g]) = 2 =>
                  LET a == Channels[pair_indexes.v[g][1] + 1]
                      b == Channels[pair_indexes.v[g][2] + 1]
                  IN /\ pair_indexes.v[g][2] = pair_indexes.v[g][1] + 1
                     /\ a[1] = b[1]
                     /\ IsSubstr(indMark, a[1])
                     /\ EndsWith(a[2], tagA)
                     /\ EndsWith(b[2], tagB)
                     /\ Stem(a[2], tagA) = Stem(b[2], tagB)


-----------------------------------------------------------------------------
(* Claims about the whole setup *)

\* C27: the setup leaves a target_ordering the caller supplied as it is
C27_SuppliedOrderingKept ==
    [][pc = "shaped" /\ pc' = "ordered" /\ target_ordering # NoOrdering
           => target_ordering' = target_ordering]_vars

\* C29: every handle an operation opened is closed when it has returned or
\* raised
C29_HandlesClosed == open_files = {}

\* the first complex of the first shard
FirstGrid == GridPoints(database[1], MolNames(database[1])[1])

\* get_grid_shape runs
GridStage == pc = "paired" /\ pc' # "paired"

\* C25: a grid_shape that was not supplied is inferred from the lengths of
\* the x, y and z arrays of the first complex of the first shard; with
\* neither a supplied shape nor such arrays the setup raises ValueError
\* before any complex is loaded; a grid_shape once there is never changed
C25_GridShapeInferred ==
    [][/\ GridStage /\ grid_shape = NoShape /\ FirstGrid.present
           => /\ pc' = "gridded"
              /\ grid_shape' = <<FirstGrid.x, FirstGrid.y, FirstGrid.z>>
       /\ GridStage /\ grid_shape = NoShape /\ ~FirstGrid.present
           => /\ pc' = "raised"
              /\ err' = "ValueError"
              /\ data_shape' = Unset
              /\ input_shape' = Unset
              /\ load_out' = NoLoad
              /\ get_out' = [err |-> "not called"]
       /\ grid_shape # NoShape => grid_shape' = grid_shape]_vars

\* a shape was inferred that no caller of the model supplies
C25_Witness ==
    pc = "gridded" /\ database = <<"sC">> /\ grid_shape = <<3, 1, 1>>

\* the stages of process_dataset, each with the stage that follows it (the
\* target ordering is identified between the probing of the input shape and
\* the statistics)
StageSteps ==
    {<<"check", "index">>, <<"index", "featname">>, <<"featname", "resolved">>,
     <<"resolved", "paired">>, <<"paired", "gridded">>,
     <<"gridded", "shaped">>, <<"shaped", "ordered">>, <<"ordered", "ready">>}

\* what each stage produces
Checked == \A f \in Range(database) : CanOpen(f) /\ MolNames(f) # <<>>
NamesResolved ==
    /\ select_feature.kind = "dict"
    /\ \A i \in DOMAIN select_feature.items : ~select_feature.items[i][2].all
PairsBuilt == pair_chain_feature # NoPair => pair_indexes # Unset
Inferred == grid_shape # NoShape
Probed == data_shape # Unset /\ input_shape # Unset

\* C24: the stages of the setup run in the order integrity check, indexing,
\* feature-name resolution, pair-index construction, grid-shape inference,
\* input-shape probing, normalization statistics, and a stage starts only
\* when the state it reads has been produced
C24_StagesInOrder ==
    [][/\ pc # "ready" /\ pc' # "raised" => <<pc, pc'>> \in StageSteps
       /\ pc = "index" => Checked
       /\ pc = "featname" => Checked /\ ntot = Len(index_complexes)
       /\ pc = "resolved" => NamesResolved
       /\ pc = "paired" => Checked /\ PairsBuilt
       /\ pc = "gridded" => Checked /\ NamesResolved /\ PairsBuilt /\ Inferred
       /\ pc = "ordered" => Checked /\ NamesResolved /\ Inferred /\ Probed]_vars

\* a setup went through every stage, inference of the grid shape included
C24_Witness ==
    /\ pc = "ready"
    /\ database = <<"sA">>
    /\ request = SelAll
    /\ NamesResolved
    /\ Probed
    /\ param_norm # Unset

\* the filter, or the allow-list, leaves no complex of the shards
NoSurvivor == dict_filter = RejectAll \/ select_pdb = <<"m9">>

\* arguments that ask for stored features and a stored target of shards
\* that hold complexes, with a grid shape that is given or stored
UsualArguments ==
    /\ database \in {<<"sA">>, <<"sD">>, <<"sA", "sB">>}
    /\ request \in {SelAll, SelDict(<< <<gF, ListReq(<<nP>>)>> >>)}
    /\ database = <<"sD">> => request = SelAll
    /\ select_target \in {"IRMSD", "DOCKQ"}
    /\ pair_chain_feature = NoPair

\* C26: the setup of a DataSet over shards that hold complexes none of
\* which passes the filter or the allow-list ends without an exception, and
\* the length of the DataSet is 0
C26_EmptyDataSet ==
    UsualArguments /\ NoSurvivor
        => /\ pc # "raised"
           /\ pc \notin {"check", "index"} => __len__ = 0

\* such a setup has ended
C26_Witness ==
    /\ pc = "ready"
    /\ database = <<"sA">>
    /\ dict_filter = RejectAll
    /\ select_pdb = <<>>
    /\ __len__ = 0


-----------------------------------------------------------------------------
(* Claims about item access by several workers (SpecWorkers) *)

\* the attributes of the DataSet the claim names
SharedState ==
    <<index_complexes, select_feature, pair_indexes, feature_mean,
      feature_std, target_min, target_max, grid_shape, data_shape,
      input_shape>>

\* every call that has returned gave what the call gives when nothing runs
\* beside it
ReturnedAlone ==
    \A w \in Workers :
        work[w].stage = "returned"
            => work[w].r = getitem(index_complexes[work[w].index + 1])

\* C23: once the setup has ended, no statement of __getitem__ changes the
\* shared attributes of the DataSet, and whatever the interleaving of the
\* calls of several workers, a call returns the item it returns when run
\* alone, the same for every call with that index
C23_GetIsReadOnly ==
    /\ [][pc = "ready" => UNCHANGED SharedState]_vars
    /\ []ReturnedAlone

\* both workers have returned from calls that ran side by side, one of them
\* with a feature that was clipped, normalized, paired and projected
C23_Witness ==
    /\ work["w1"].stage = "returned"
    /\ work["w2"].stage = "returned"
    /\ work["w1"].index # work["w2"].index
    /\ work["w1"].r.err = "none"
    /\ clip_features /\ normalize_features /\ transform
    /\ pair_chain_feature # NoPair

====
